---- MODULE Spec2Model ----
(***************************************************************************)
(* Model of the FHEVM SDK core: the session client (core/client.ts), the   *)
(* context initializer (core/init.ts) and the encryption / decryption      *)
(* operations (core/encryption.ts).  The wrapped cryptographic library,    *)
(* the provider and the signer are the environment: each call made on them *)
(* is recorded in the log of the SDK call that made it, and each may       *)
(* succeed or throw.                                                       *)
(***************************************************************************)
EXTENDS Integers, Sequences, FiniteSets, TLC

VARIABLES
    clients,        \* the FhevmClient objects ever created (heap), by index
    globalClient,   \* module-level slot of client.ts: 0 (null) or an index
    inits,          \* the initFhevm calls made so far, one record per call
    lastEnc,        \* the latest encryptInput call (it runs without suspending)
    decs,           \* the decryptOutput calls made so far, one record per call
    reencs,         \* the reencryptValue calls made so far, one record per call
    lastRead,       \* the latest call of one of the read-only functions
    batchEnc,       \* the latest batchEncryptInputs call
    batchDec,       \* the latest batchDecryptOutputs call: its slots are in decs
    hookEnc,        \* React state of one useEncryptInput and its latest call
    hookDec,        \* React state of one useDecryptOutput and its latest call
    useClient,      \* React state of one useFhevmClient
    hookDecCalls,   \* the calls of decrypt() of the useDecryptOutput, overlapping
    write,          \* the latest writeEncrypted call of one useFhevmContract
    demo            \* the page of the vanilla-JS demo: its client and its DOM

\* what the components built on the hooks and the demo page keep
ui == <<useClient, hookDecCalls, write, demo>>

\* what the callers of the core operations keep
callers == <<lastRead, batchEnc, batchDec, hookEnc, hookDec, ui>>

vars == <<clients, globalClient, inits, lastEnc, decs, reencs, callers>>

-----------------------------------------------------------------------------
(* Bounds of the model *)

MaxClients == 2     \* createFhevmClient calls
MaxInits == 2       \* initFhevm calls
MaxBatch == 2       \* values in one encryptInput batch
OpsClients == 1     \* createFhevmClient calls around the operations
OpsInits == 1       \* initFhevm calls around the operations
MaxHookCalls == 2   \* calls, one after the other, of a hook's function
MaxEffectRuns == 2  \* runs of the effect of useFhevmClient
MaxOverlap == 2     \* calls of a hook's function in flight together
MaxDemoClicks == 2  \* clicks on the demo's decrypt button

-----------------------------------------------------------------------------
(* Values of the environment *)

Providers == {"provider"}
NoSigner == "undefined"
Signers == {"signerA", "signerB"}
NoInstance == 0
NoClient == 0

Contracts == {"0xContract"}
Users == {"0xUser"}

\* enum FhevmType
FhevmType ==
    {"euint8", "euint16", "euint32", "euint64", "euint128", "ebool", "eaddress"}

\* a tag outside the enumeration (an untyped caller can pass any string)
UnknownTags == {"euint256"}

PlainValues == {1, 300}

-----------------------------------------------------------------------------
(* Errors: new Error(`<msg>: ${cause}`) is the pair of its text and cause *)

NoCause == [msg |-> "", arg |-> ""]
Cause(msg, arg) == [msg |-> msg, arg |-> arg]
Error(msg, cause) == [msg |-> msg, cause |-> cause]
NoError == Error("", NoCause)

ClientNotFoundError == Error("FHEVM client not created. Call createFhevmClient() first.", NoCause)
NotInitializedError == Error("FHEVM not initialized. Call initFhevm() first.", NoCause)
InitializationError(cause) == Error("FHEVM initialization failed", cause)
EncryptSignerRequiredError == Error("Signer required for encryption. Set signer in client.", NoCause)
DecryptSignerRequiredError == Error("Signer required for decryption", NoCause)
UnsupportedTypeError(tag) == Cause("Unsupported type", tag)
EncryptionError(cause) == Error("Failed to encrypt input", cause)
ReencryptionError(cause) == Error("Failed to reencrypt value", cause)

\* what the environment throws at each of its entry points
ImportFailure == Cause("cannot load fhevmjs", "")
NetworkFailure == Cause("network error", "")
HandshakeFailure == Cause("createInstance rejected", "")
ContextFailure == Cause("context error", "")

-----------------------------------------------------------------------------
(* core/client.ts *)

DefaultConfig ==
    [network |-> "sepolia",
     gatewayUrl |-> "https://gateway.sepolia.fhevm.io",
     aclAddress |-> "0x...",
     kmsVerifierAddress |-> "0x..."]

ConfigKeys == DOMAIN DefaultConfig

\* the overrides a caller passes: a partial configuration
ConfigOverrides ==
    { [k \in {} |-> ""],
      [k \in {"gatewayUrl"} |-> "https://gateway.zama.ai"] }

\* { ...DEFAULT_CONFIG, ...options.config }
MergeConfig(defaults, overrides) ==
    [k \in (DOMAIN defaults) \cup (DOMAIN overrides) |->
        IF k \in DOMAIN overrides THEN overrides[k] ELSE defaults[k]]

NewClient(provider, signer, overrides) ==
    [provider |-> provider,
     signer |-> signer,
     config |-> MergeConfig(DefaultConfig, overrides),
     instance |-> NoInstance,
     isInitialized |-> FALSE]

\* the assignment to globalClient left out
createFhevmClientDetached(provider, signer, overrides) ==
    /\ Len(clients) < MaxClients
    /\ clients' = Append(clients, NewClient(provider, signer, overrides))
    /\ UNCHANGED <<globalClient, inits, lastEnc, decs, reencs, callers>>

createFhevmClient(provider, signer, overrides) ==
    /\ Len(clients) < MaxClients
    /\ clients' = Append(clients, NewClient(provider, signer, overrides))
    /\ globalClient' = Len(clients) + 1
    /\ UNCHANGED <<inits, lastEnc, decs, reencs, callers>>

getFhevmClient == globalClient

isClientInitialized ==
    IF globalClient = NoClient THEN FALSE ELSE clients[globalClient].isInitialized

\* a reset that also clears the client that was current
resetClientClearing ==
    /\ globalClient' = NoClient
    /\ clients' = IF globalClient # NoClient
                  THEN [clients EXCEPT ![globalClient].instance = NoInstance,
                                       ![globalClient].isInitialized = FALSE]
                  ELSE clients
    /\ UNCHANGED <<inits, lastEnc, decs, reencs, callers>>

resetClient ==
    /\ globalClient' = NoClient
    /\ UNCHANGED <<clients, inits, lastEnc, decs, reencs, callers>>

\* a signer change that rebuilds the client: the context is dropped
updateClientSignerRebuilding(signer) ==
    /\ clients' = IF globalClient # NoClient
                  THEN [clients EXCEPT ![globalClient].signer = signer,
                                       ![globalClient].instance = NoInstance,
                                       ![globalClient].isInitialized = FALSE]
                  ELSE clients
    /\ UNCHANGED <<globalClient, inits, lastEnc, decs, reencs, callers>>

updateClientSigner(signer) ==
    /\ clients' = IF globalClient # NoClient
                  THEN [clients EXCEPT ![globalClient].signer = signer]
                  ELSE clients
    /\ UNCHANGED <<globalClient, inits, lastEnc, decs, reencs, callers>>

-----------------------------------------------------------------------------
(* core/init.ts: initFhevm *)

\* A call is suspended at the await named by its pc; "done" once it has settled.
InitPcs == {"import", "getNetwork", "createInstance", "done"}

\* the argument ignored: always the current client
ResolveClientCurrentOnly(arg) == getFhevmClient

\* const fhevmClient = client || getFhevmClient()
ResolveClient(arg) == IF arg # NoClient THEN arg ELSE getFhevmClient

\* the check left out: every call runs the handshake
AlreadyInitializedSkipped(c) == FALSE

\* if (fhevmClient.isInitialized) return
AlreadyInitialized(c) == clients[c].isInitialized

\* the state of the client a call reads when it starts
Snapshot(c) ==
    IF c = NoClient
    THEN [isInitialized |-> FALSE, instance |-> NoInstance, signer |-> NoSigner]
    ELSE [isInitialized |-> clients[c].isInitialized,
          instance |-> clients[c].instance,
          signer |-> clients[c].signer]

\* pre: the two fields initFhevm writes, as they were when the call started
InitCall(c, pc, outcome, error, log) ==
    [client |-> c, pc |-> pc, outcome |-> outcome, error |-> error, log |-> log,
     pre |-> [isInitialized |-> Snapshot(c).isInitialized,
              instance |-> Snapshot(c).instance]]

\* the synchronous part of initFhevm, up to its first await
InitStart(arg) ==
    LET c == ResolveClient(arg) IN
    IF c = NoClient
    THEN InitCall(c, "done", "rejected", ClientNotFoundError, <<>>)
    ELSE IF AlreadyInitialized(c)
    THEN InitCall(c, "done", "resolved", NoError, <<>>)
    ELSE InitCall(c, "import", "pending", NoError, <<"import">>)

initFhevm(arg) ==
    /\ Len(inits) < MaxInits
    /\ inits' = Append(inits, InitStart(arg))
    /\ UNCHANGED <<clients, globalClient, lastEnc, decs, reencs, callers>>

\* catch (error) { throw new Error(`FHEVM initialization failed: ${error}`) }
InitCatch(call, cause) ==
    [call EXCEPT !.pc = "done", !.outcome = "rejected",
                 !.error = InitializationError(cause)]

\* what the environment throws at the await a call is suspended at
InitFailureAt(pc) ==
    CASE pc = "import" -> ImportFailure
      [] pc = "getNetwork" -> NetworkFailure
      [] pc = "createInstance" -> HandshakeFailure

\* the await after the one that has just resolved
InitNextAwait(pc) ==
    CASE pc = "import" -> "getNetwork"
      [] pc = "getNetwork" -> "createInstance"

\* the flag set without the instance
InitStoreFlagOnly(cs, c, instance) ==
    [cs EXCEPT ![c].isInitialized = TRUE]

\* fhevmClient.instance = instance; fhevmClient.isInitialized = true
InitStore(cs, c, instance) ==
    [cs EXCEPT ![c].instance = instance, ![c].isInitialized = TRUE]

\* createInstance returns a fresh object per call: named by the call that made it
NewInstance(i) == i

\* the awaited import / getNetwork / createInstance resolves and the call runs on
InitResumeOk(i) ==
    /\ inits[i].pc \in {"import", "getNetwork"}
    /\ inits' = [inits EXCEPT ![i].pc = InitNextAwait(inits[i].pc),
                              ![i].log = Append(@, InitNextAwait(inits[i].pc))]
    /\ UNCHANGED <<clients, globalClient, lastEnc, decs, reencs, callers>>

\* the result stored on whichever client is current when the handshake ends
InitFinishOnCurrent(i) ==
    /\ inits[i].pc = "createInstance"
    /\ clients' = InitStore(clients,
                            IF getFhevmClient = NoClient THEN inits[i].client
                                                         ELSE getFhevmClient,
                            NewInstance(i))
    /\ inits' = [inits EXCEPT ![i].pc = "done", ![i].outcome = "resolved"]
    /\ UNCHANGED <<globalClient, lastEnc, decs, reencs, callers>>

InitFinish(i) ==
    /\ inits[i].pc = "createInstance"
    /\ clients' = InitStore(clients, inits[i].client, NewInstance(i))
    /\ inits' = [inits EXCEPT ![i].pc = "done", ![i].outcome = "resolved"]
    /\ UNCHANGED <<globalClient, lastEnc, decs, reencs, callers>>

\* the awaited call rejects
InitResumeFail(i) ==
    /\ inits[i].pc # "done"
    /\ inits' = [inits EXCEPT ![i] = InitCatch(@, InitFailureAt(inits[i].pc))]
    /\ UNCHANGED <<clients, globalClient, lastEnc, decs, reencs, callers>>

\* the argument ignored: the current client's flag
isFhevmReadyCurrentOnly(arg) == isClientInitialized

\* isFhevmReady(client?)
isFhevmReady(arg) ==
    LET c == ResolveClient(arg) IN
    IF c = NoClient THEN FALSE ELSE clients[c].isInitialized

\* the check reduced to the client's presence: a null instance is handed out
InstanceAvailableUnchecked == getFhevmClient # NoClient

\* getFhevmInstance(): the instance of the current client, or a throw
InstanceAvailable ==
    /\ getFhevmClient # NoClient
    /\ clients[getFhevmClient].isInitialized

getFhevmInstance == clients[getFhevmClient].instance

-----------------------------------------------------------------------------
(* core/encryption.ts: encryptInput *)

\* one call made on the opaque context or on the signer, with its arguments
Call(fn, args) == [fn |-> fn, args |-> args]

TypedValues == [value : PlainValues, type : FhevmType \cup UnknownTags]

Batches(n) == UNION { [1..k -> TypedValues] : k \in 1..n }

EncryptOptions(n) == [values : Batches(n), contractAddress : Contracts, userAddress : Users]

\* the switch with a case calling its neighbour's encoder
EncoderShifted(type) ==
    CASE type = "euint8" -> "add8"
      [] type = "euint16" -> "add32"
      [] type = "euint32" -> "add32"
      [] type = "euint64" -> "add64"
      [] type = "euint128" -> "add128"
      [] type = "ebool" -> "addBool"
      [] OTHER -> "default"

\* switch (type) { case FhevmType.EUINT8: input.add8(value) ... default: throw }
Encoder(type) ==
    CASE type = "euint8" -> "add8"
      [] type = "euint16" -> "add16"
      [] type = "euint32" -> "add32"
      [] type = "euint64" -> "add64"
      [] type = "euint128" -> "add128"
      [] type = "ebool" -> "addBool"
      [] OTHER -> "default"

Encoders == {"add8", "add16", "add32", "add64", "add128", "addBool"}

\* the handle the context makes for one encoded value: it names the encoder and
\* holds the value (a context with an identity map from handles to plaintexts)
Handle(call) == [encoder |-> call.fn, plaintext |-> call.args[1]]

\* input.encrypt() of the context: one handle per encoder call made on the
\* input, in call order, and one proof over all of them
EncoderCalls(log) == SelectSeq(log, LAMBDA c : c.fn \in Encoders)

ContextEncrypt(log) ==
    LET added == EncoderCalls(log) IN
    [handles |-> [i \in 1..Len(added) |-> Handle(added[i])],
     inputProof |-> [finalizer |-> Len(log) + 1, covers |-> Len(added)]]

NoEncrypted == [handles |-> <<>>, inputProof |-> [finalizer |-> 0, covers |-> 0]]

\* the for loop over options.values: the calls made and what was thrown;
\* the fault-th call on the context throws
RECURSIVE AddValues(_, _, _, _)
AddValues(values, i, log, fault) ==
    IF i > Len(values)
    THEN [log |-> log, thrown |-> NoCause]
    ELSE IF Encoder(values[i].type) = "default"
    THEN [log |-> log, thrown |-> UnsupportedTypeError(values[i].type)]
    ELSE LET called == Append(log, Call(Encoder(values[i].type), <<values[i].value>>)) IN
         IF fault = Len(called)
         THEN [log |-> called, thrown |-> ContextFailure]
         ELSE AddValues(values, i + 1, called, fault)

\* return { handles: encryptedData.handles, inputProof: encryptedData.inputProof }
EncryptReturn(encryptedData) ==
    [handles |-> encryptedData.handles, inputProof |-> encryptedData.inputProof]

\* the catch rethrowing without the cause
EncryptCatchBare(cause) == EncryptionError(NoCause)

\* catch (error) { throw new Error(`Failed to encrypt input: ${error}`) }
EncryptCatch(cause) == EncryptionError(cause)

\* the try block swallowing what a value throws and finalizing what was added
EncryptTryPartial(options, fault) ==
    LET created == <<Call("createEncryptedInput",
                          <<options.contractAddress, options.userAddress>>)>>
        added == AddValues(options.values, 1, created, fault)
        final == Append(added.log, Call("encrypt", <<>>))
    IN  [outcome |-> "resolved", error |-> NoError,
         log |-> final, result |-> EncryptReturn(ContextEncrypt(added.log))]

\* the try block of encryptInput
EncryptTry(options, fault) ==
    LET created == <<Call("createEncryptedInput",
                          <<options.contractAddress, options.userAddress>>)>>
        added == AddValues(options.values, 1, created, fault)
        final == Append(added.log, Call("encrypt", <<>>))
    IN  IF fault = 1
        THEN [outcome |-> "rejected", error |-> EncryptCatch(ContextFailure),
              log |-> created, result |-> NoEncrypted]
        ELSE IF added.thrown # NoCause
        THEN [outcome |-> "rejected", error |-> EncryptCatch(added.thrown),
              log |-> added.log, result |-> NoEncrypted]
        ELSE IF fault = Len(final)
        THEN [outcome |-> "rejected", error |-> EncryptCatch(ContextFailure),
              log |-> final, result |-> NoEncrypted]
        ELSE [outcome |-> "resolved", error |-> NoError,
              log |-> final, result |-> EncryptReturn(ContextEncrypt(added.log))]

\* the check left out
SignerMissingSkipped == FALSE

\* if (!client?.signer) throw
SignerMissing ==
    \/ getFhevmClient = NoClient
    \/ clients[getFhevmClient].signer = NoSigner

\* encryptInput from its first line to its settlement
EncryptRun(options, fault) ==
    IF ~InstanceAvailable
    THEN [outcome |-> "rejected", error |-> NotInitializedError,
          log |-> <<>>, result |-> NoEncrypted]
    ELSE IF SignerMissing
    THEN [outcome |-> "rejected", error |-> EncryptSignerRequiredError,
          log |-> <<>>, result |-> NoEncrypted]
    ELSE EncryptTry(options, fault)

EncCall(called, options, fault, run) ==
    [called |-> called, options |-> options, fault |-> fault,
     client |-> getFhevmClient, pre |-> Snapshot(getFhevmClient),
     instance |-> IF InstanceAvailable THEN getFhevmInstance ELSE NoInstance,
     outcome |-> run.outcome, error |-> run.error, log |-> run.log,
     result |-> run.result]

\* the calls a run of the try block can make: creation, one per value, finalizer
Faults(options) == 0..(Len(options.values) + 2)

encryptInput(options, fault) ==
    /\ lastEnc' = EncCall(TRUE, options, fault, EncryptRun(options, fault))
    /\ UNCHANGED <<clients, globalClient, inits, decs, reencs, callers>>

-----------------------------------------------------------------------------
(* The callers' state before any call *)

NoRead ==
    [fn |-> "", arg |-> NoClient, outcome |-> "none", value |-> NoClient,
     flag |-> FALSE]

NoBatchEnc ==
    [called |-> FALSE, inputs |-> <<>>, faults |-> <<>>, runs |-> <<>>,
     outcome |-> "none", error |-> NoError, results |-> <<>>]

NoBatchDec ==
    [called |-> FALSE, outputs |-> <<>>, first |-> 0, count |-> 0,
     outcome |-> "none", error |-> NoError, results |-> <<>>]

\* useState(false), useState(null); no call of the returned function yet
NoHook ==
    [isBusy |-> FALSE, error |-> NoError, pc |-> "idle", calls |-> 0, call |-> 0,
     pre |-> [isBusy |-> FALSE, error |-> NoError], returned |-> "none"]

\* useState(null), useState(false), useState(null) of useFhevmClient
NoUseClient == [client |-> NoClient, isInitialized |-> FALSE, error |-> NoError]

\* no contract function invoked
NoInvoke == [on |-> "", signer |-> NoSigner, fn |-> "", args |-> <<>>]

\* no writeEncrypted call yet
NoWrite ==
    [called |-> FALSE, client |-> NoClient, fn |-> "", pc |-> "idle",
     pre |-> [signer |-> NoSigner], outcome |-> "none", error |-> NoError,
     encrypted |-> NoEncrypted, invoke |-> NoInvoke]

\* the demo page once its script has run: both buttons disabled, no client
NoDemo ==
    [client |-> NoClient, connectBtn |-> TRUE, encryptBtn |-> FALSE,
     decryptBtn |-> FALSE, fhevmStatus |-> "pending", encryptResult |-> "none",
     decryptResult |-> "none", encrypting |-> FALSE, dec |-> 0, awaiting |-> FALSE]

\* no caller has called anything yet
NoCallers ==
    /\ lastRead = NoRead
    /\ batchEnc = NoBatchEnc
    /\ batchDec = NoBatchDec
    /\ hookEnc = NoHook
    /\ hookDec = NoHook
    /\ useClient = NoUseClient
    /\ hookDecCalls = <<>>
    /\ write = NoWrite
    /\ demo = NoDemo

-----------------------------------------------------------------------------
(* Promise.all, as batchEncryptInputs and batchDecryptOutputs use it *)

\* the lowest index of a rejected promise, 0 when there is none
FirstRejected(settled) ==
    LET rejected == {i \in 1..Len(settled) : settled[i].outcome = "rejected"} IN
    IF rejected = {} THEN 0 ELSE CHOOSE i \in rejected : \A j \in rejected : i <= j

\* a combinator that keeps the fulfilled promises and drops the others
PromiseAllFulfilledOnly(settled, values) ==
    LET fulfilled == {i \in 1..Len(settled) : settled[i].outcome = "resolved"}
        nth(k) == CHOOSE i \in fulfilled :
                        Cardinality({j \in fulfilled : j <= i}) = k
    IN  [outcome |-> "resolved", error |-> NoError,
         results |-> [k \in 1..Cardinality(fulfilled) |-> values[nth(k)]]]

\* Promise.all(promises): rejects with the reason of a rejected promise, and
\* otherwise resolves, once all are fulfilled, to their values in index order
PromiseAll(settled, values) ==
    IF FirstRejected(settled) # 0
    THEN [outcome |-> "rejected", error |-> settled[FirstRejected(settled)].error,
          results |-> <<>>]
    ELSE IF \A i \in 1..Len(settled) : settled[i].outcome = "resolved"
    THEN [outcome |-> "resolved", error |-> NoError, results |-> values]
    ELSE [outcome |-> "pending", error |-> NoError, results |-> <<>>]

\* the promises of a batchDecryptOutputs call: its slots in decs
BatchSlots(b, ds) == SubSeq(ds, b.first, b.first + b.count - 1)

\* the results handed out last slot first
BatchDecSettleReversed(b, ds) ==
    IF ~b.called
    THEN b
    ELSE LET slots == BatchSlots(b, ds)
             all == PromiseAll(slots, [i \in 1..Len(slots) |->
                                            slots[Len(slots) + 1 - i].value])
         IN  [b EXCEPT !.outcome = all.outcome, !.error = all.error,
                       !.results = all.results]

\* the Promise.all of a batchDecryptOutputs call, as its slots stand
BatchDecSettle(b, ds) ==
    IF ~b.called
    THEN b
    ELSE LET slots == BatchSlots(b, ds)
             all == PromiseAll(slots, [i \in 1..Len(slots) |-> slots[i].value])
         IN  [b EXCEPT !.outcome = all.outcome, !.error = all.error,
                       !.results = all.results]

-----------------------------------------------------------------------------
(* core/encryption.ts: decryptOutput *)

\* one call made on a signer or on the opaque context, with its receiver
CallOn(target, fn, args) == [on |-> target, fn |-> fn, args |-> args]

\* the handles a caller asks to decrypt: handles of earlier encryptions
EncryptedValues == { Handle(Call("add32", <<v>>)) : v \in {1} }

\* useUserDecrypt?: boolean
Modes == {"undefined", "true", "false"}

DecryptOptions ==
    [encryptedValue : EncryptedValues, contractAddress : Contracts,
     userAddress : Users, useUserDecrypt : Modes]

\* plaintext: string | number | boolean
Number(v) == [kind |-> "number", value |-> v]
EmptyString == [kind |-> "string", value |-> ""]

DecryptionResult(plaintext, success) == [plaintext |-> plaintext, success |-> success]
NoValue == [plaintext |-> EmptyString, success |-> "none"]

\* the environment: signer.getAddress()
AddressOf(signer) ==
    CASE signer = "signerA" -> "0xUser"
      [] signer = "signerB" -> "0xOther"
      [] OTHER -> "0x0"

\* the environment: instance.requestDecryption(handle, contract, user)
ContextChallenge(handle, contract, user) ==
    [signature |-> [domain |-> contract, types |-> "Reencrypt",
                    message |-> [handle |-> handle, user |-> user]],
     publicKey |-> "publicKey"]

NoChallenge ==
    [signature |-> [domain |-> "", types |-> "",
                    message |-> [handle |-> "", user |-> ""]],
     publicKey |-> ""]

\* the environment: signer.signTypedData(domain, types, message)
SignTypedData(signer, domain, types, message) ==
    [signer |-> signer, domain |-> domain, types |-> types, message |-> message]

\* the environment: instance.decrypt / instance.publicDecrypt on a context that
\* holds an identity map from handles to plaintexts
ContextDecrypt(handle) == Number(handle.plaintext)

\* what the environment can throw at the await a decryptOutput is suspended at
DecryptFailuresAt(pc) ==
    CASE pc = "getAddress" -> {Cause("signer unavailable", "")}
      [] pc = "requestDecryption" -> {Cause("invalid handle", "")}
      [] pc = "signTypedData" -> {Cause("user rejected the signature", "")}
      [] pc = "decrypt" -> {Cause("no permission to decrypt", ""),
                            Cause("invalid handle", "")}
      [] pc = "publicDecrypt" -> {Cause("invalid handle", "")}
      [] OTHER -> {}

DecCall(options, pc, outcome, error, value, log) ==
    [client |-> getFhevmClient, options |-> options,
     pre |-> Snapshot(getFhevmClient),
     instance |-> IF InstanceAvailable THEN getFhevmInstance ELSE NoInstance,
     pc |-> pc, outcome |-> outcome, error |-> error, value |-> value,
     challenge |-> NoChallenge, logged |-> NoCause, log |-> log]

\* the test written as === true: an omitted flag takes the public path
UserDecryptWhenSet(options) == options.useUserDecrypt = "true"

\* if (options.useUserDecrypt !== false)
UserDecrypt(options) == options.useUserDecrypt # "false"

\* the two checks moved inside the try block: their throws become results
DecryptStartInsideTry(options) ==
    IF ~InstanceAvailable \/ SignerMissing
    THEN DecCall(options, "done", "resolved", NoError,
                 [plaintext |-> EmptyString, success |-> FALSE], <<>>)
    ELSE IF UserDecrypt(options)
    THEN DecCall(options, "getAddress", "pending", NoError, NoValue,
                 <<CallOn(clients[getFhevmClient].signer, "getAddress", <<>>)>>)
    ELSE DecCall(options, "publicDecrypt", "pending", NoError, NoValue,
                 <<CallOn(getFhevmInstance, "publicDecrypt",
                          <<options.encryptedValue, options.contractAddress>>)>>)

\* the synchronous part of decryptOutput, up to its first await
DecryptStart(options) ==
    IF ~InstanceAvailable
    THEN DecCall(options, "done", "rejected", NotInitializedError, NoValue, <<>>)
    ELSE IF SignerMissing
    THEN DecCall(options, "done", "rejected", DecryptSignerRequiredError, NoValue, <<>>)
    ELSE IF UserDecrypt(options)
    THEN DecCall(options, "getAddress", "pending", NoError, NoValue,
                 <<CallOn(clients[getFhevmClient].signer, "getAddress", <<>>)>>)
    ELSE DecCall(options, "publicDecrypt", "pending", NoError, NoValue,
                 <<CallOn(getFhevmInstance, "publicDecrypt",
                          <<options.encryptedValue, options.contractAddress>>)>>)

decryptOutput(options) ==
    /\ decs' = Append(decs, DecryptStart(options))
    /\ UNCHANGED <<clients, globalClient, inits, lastEnc, reencs, callers>>

\* a return that drops the plaintext
DecryptReturnEmpty(call, plaintext) ==
    [call EXCEPT !.pc = "done", !.outcome = "resolved",
                 !.value = [plaintext |-> EmptyString, success |-> TRUE]]

\* return { plaintext, success: true }
DecryptReturn(call, plaintext) ==
    [call EXCEPT !.pc = "done", !.outcome = "resolved",
                 !.value = DecryptionResult(plaintext, TRUE)]

\* the catch rethrowing instead of returning
DecryptCatchRethrow(call, cause) ==
    [call EXCEPT !.pc = "done", !.outcome = "rejected", !.logged = cause,
                 !.error = Error("Decryption failed", cause)]

\* a catch that makes the failed call once more before giving up
DecryptCatchRetry(call, cause) ==
    IF Cardinality({k \in 1..Len(call.log) : call.log[k].fn = call.pc}) = 1
    THEN [call EXCEPT !.log = Append(@, call.log[Len(call.log)])]
    ELSE [call EXCEPT !.pc = "done", !.outcome = "resolved", !.logged = cause,
                      !.value = [plaintext |-> EmptyString, success |-> FALSE]]

\* catch (error) { console.error(...); return { plaintext: '', success: false } }
DecryptCatch(call, cause) ==
    [call EXCEPT !.pc = "done", !.outcome = "resolved", !.logged = cause,
                 !.value = DecryptionResult(EmptyString, FALSE)]

LastCall(call) == call.log[Len(call.log)]

\* the permissioned path submitting the challenge without the signer's signature
DecryptContinueUnsigned(call) ==
    CASE call.pc = "getAddress" ->
            [call EXCEPT !.pc = "requestDecryption",
                !.log = Append(@, CallOn(call.instance, "requestDecryption",
                            <<call.options.encryptedValue,
                              call.options.contractAddress,
                              AddressOf(LastCall(call).on)>>))]
      [] call.pc = "requestDecryption" ->
            LET ch == ContextChallenge(LastCall(call).args[1], LastCall(call).args[2],
                                       LastCall(call).args[3]) IN
            [call EXCEPT !.pc = "decrypt", !.challenge = ch,
                !.log = Append(@, CallOn(call.instance, "decrypt",
                            <<call.options.encryptedValue, ch.signature,
                              ch.publicKey>>))]
      [] call.pc \in {"signTypedData", "decrypt", "publicDecrypt"} ->
            DecryptReturn(call, ContextDecrypt(LastCall(call).args[1]))

\* the challenge requested for an address taken from the options
DecryptContinueCallerAddress(call) ==
    CASE call.pc = "getAddress" ->
            [call EXCEPT !.pc = "requestDecryption",
                !.log = Append(@, CallOn(call.instance, "requestDecryption",
                            <<call.options.encryptedValue,
                              call.options.contractAddress,
                              call.options.userAddress>>))]
      [] call.pc = "requestDecryption" ->
            LET ch == ContextChallenge(LastCall(call).args[1], LastCall(call).args[2],
                                       LastCall(call).args[3]) IN
            [call EXCEPT !.pc = "signTypedData", !.challenge = ch,
                !.log = Append(@, CallOn(clients[call.client].signer, "signTypedData",
                            <<ch.signature.domain, ch.signature.types,
                              ch.signature.message>>))]
      [] call.pc = "signTypedData" ->
            [call EXCEPT !.pc = "decrypt",
                !.log = Append(@, CallOn(call.instance, "decrypt",
                            <<call.options.encryptedValue,
                              SignTypedData(LastCall(call).on, LastCall(call).args[1],
                                            LastCall(call).args[2], LastCall(call).args[3]),
                              call.challenge.publicKey>>))]
      [] call.pc \in {"decrypt", "publicDecrypt"} ->
            DecryptReturn(call, ContextDecrypt(LastCall(call).args[1]))

\* the awaited call has resolved: the code up to the next await
DecryptContinue(call) ==
    CASE call.pc = "getAddress" ->
            [call EXCEPT !.pc = "requestDecryption",
                !.log = Append(@, CallOn(call.instance, "requestDecryption",
                            <<call.options.encryptedValue,
                              call.options.contractAddress,
                              AddressOf(LastCall(call).on)>>))]
      [] call.pc = "requestDecryption" ->
            LET ch == ContextChallenge(LastCall(call).args[1], LastCall(call).args[2],
                                       LastCall(call).args[3]) IN
            [call EXCEPT !.pc = "signTypedData", !.challenge = ch,
                !.log = Append(@, CallOn(clients[call.client].signer, "signTypedData",
                            <<ch.signature.domain, ch.signature.types,
                              ch.signature.message>>))]
      [] call.pc = "signTypedData" ->
            [call EXCEPT !.pc = "decrypt",
                !.log = Append(@, CallOn(call.instance, "decrypt",
                            <<call.options.encryptedValue,
                              SignTypedData(LastCall(call).on, LastCall(call).args[1],
                                            LastCall(call).args[2], LastCall(call).args[3]),
                              call.challenge.publicKey>>))]
      [] call.pc \in {"decrypt", "publicDecrypt"} ->
            DecryptReturn(call, ContextDecrypt(LastCall(call).args[1]))

DecryptResumeOk(i) ==
    /\ decs[i].pc # "done"
    /\ decs' = [decs EXCEPT ![i] = DecryptContinue(@)]
    /\ batchDec' = BatchDecSettle(batchDec, decs')
    /\ UNCHANGED <<clients, globalClient, inits, lastEnc, reencs,
                   lastRead, batchEnc, hookEnc, hookDec, ui>>

\* a failed decryption that marks the client as not initialized
DecryptResumeFailInvalidating(i, cause) ==
    /\ decs[i].pc # "done"
    /\ cause \in DecryptFailuresAt(decs[i].pc)
    /\ decs' = [decs EXCEPT ![i] = DecryptCatch(@, cause)]
    /\ batchDec' = BatchDecSettle(batchDec, decs')
    /\ clients' = [clients EXCEPT ![decs[i].client].isInitialized = FALSE]
    /\ UNCHANGED <<globalClient, inits, lastEnc, reencs,
                   lastRead, batchEnc, hookEnc, hookDec, ui>>

DecryptResumeFail(i, cause) ==
    /\ decs[i].pc # "done"
    /\ cause \in DecryptFailuresAt(decs[i].pc)
    /\ decs' = [decs EXCEPT ![i] = DecryptCatch(@, cause)]
    /\ batchDec' = BatchDecSettle(batchDec, decs')
    /\ UNCHANGED <<clients, globalClient, inits, lastEnc, reencs,
                   lastRead, batchEnc, hookEnc, hookDec, ui>>

-----------------------------------------------------------------------------
(* core/encryption.ts: reencryptValue *)

Targets == {"0xTarget"}

\* the environment: instance.reencrypt(handle, contract, target)
ContextReencrypt(handle, contract, target) ==
    [handle |-> handle, contract |-> contract, grantedTo |-> target]

NoReencrypted == [handle |-> "", contract |-> "", grantedTo |-> ""]

ReencCall(args, pc, outcome, error, log) ==
    [client |-> getFhevmClient, args |-> args, pre |-> Snapshot(getFhevmClient),
     pc |-> pc, outcome |-> outcome, error |-> error, value |-> NoReencrypted,
     log |-> log]

\* reencryptValue with the signer check of encryptInput added
ReencryptStartSignerRequired(encryptedValue, contractAddress, targetAddress) ==
    IF ~InstanceAvailable
    THEN ReencCall(<<encryptedValue, contractAddress, targetAddress>>,
                   "done", "rejected", NotInitializedError, <<>>)
    ELSE IF SignerMissing
    THEN ReencCall(<<encryptedValue, contractAddress, targetAddress>>,
                   "done", "rejected", EncryptSignerRequiredError, <<>>)
    ELSE ReencCall(<<encryptedValue, contractAddress, targetAddress>>,
                   "reencrypt", "pending", NoError,
                   <<CallOn(getFhevmInstance, "reencrypt",
                            <<encryptedValue, contractAddress, targetAddress>>)>>)

\* the synchronous part of reencryptValue, up to its await
ReencryptStart(encryptedValue, contractAddress, targetAddress) ==
    IF ~InstanceAvailable
    THEN ReencCall(<<encryptedValue, contractAddress, targetAddress>>,
                   "done", "rejected", NotInitializedError, <<>>)
    ELSE ReencCall(<<encryptedValue, contractAddress, targetAddress>>,
                   "reencrypt", "pending", NoError,
                   <<CallOn(getFhevmInstance, "reencrypt",
                            <<encryptedValue, contractAddress, targetAddress>>)>>)

reencryptValue(encryptedValue, contractAddress, targetAddress) ==
    /\ reencs' = Append(reencs,
                        ReencryptStart(encryptedValue, contractAddress, targetAddress))
    /\ UNCHANGED <<clients, globalClient, inits, lastEnc, decs, callers>>

ReencryptResumeOk(i) ==
    /\ reencs[i].pc # "done"
    /\ reencs' = [reencs EXCEPT ![i].pc = "done", ![i].outcome = "resolved",
                     ![i].value = ContextReencrypt(reencs[i].args[1], reencs[i].args[2],
                                                   reencs[i].args[3])]
    /\ UNCHANGED <<clients, globalClient, inits, lastEnc, decs, callers>>

\* catch (error) { throw new Error(`Failed to reencrypt value: ${error}`) }
ReencryptResumeFail(i) ==
    /\ reencs[i].pc # "done"
    /\ reencs' = [reencs EXCEPT ![i].pc = "done", ![i].outcome = "rejected",
                     ![i].error = ReencryptionError(ContextFailure)]
    /\ UNCHANGED <<clients, globalClient, inits, lastEnc, decs, callers>>

-----------------------------------------------------------------------------
(* core/encryption.ts: batchEncryptInputs, batchDecryptOutputs *)

\* Promise.all(inputs.map(encryptInput)): every encryptInput runs to its
\* settlement inside the map, in index order; faults[i] is the call of the
\* i-th run at which the context throws
batchEncryptInputs(inputs, faults) ==
    LET runs == [i \in 1..Len(inputs) |-> EncryptRun(inputs[i], faults[i])]
        all == PromiseAll(runs, [i \in 1..Len(inputs) |-> runs[i].result])
    IN  /\ batchEnc' = [called |-> TRUE, inputs |-> inputs, faults |-> faults,
                        runs |-> runs, outcome |-> all.outcome,
                        error |-> all.error, results |-> all.results]
        /\ lastEnc' = EncCall(TRUE, inputs[Len(inputs)], faults[Len(inputs)],
                              runs[Len(inputs)])
        /\ UNCHANGED <<clients, globalClient, inits, decs, reencs,
                       lastRead, batchDec, hookEnc, hookDec, ui>>

\* Promise.all(outputs.map(decryptOutput)): every decryptOutput runs to its
\* first await (or to its throw) inside the map, in index order; the slots
\* then go on one by one as the environment settles their awaits
batchDecryptOutputs(outputs) ==
    LET starts == [i \in 1..Len(outputs) |-> DecryptStart(outputs[i])] IN
    /\ decs' = decs \o starts
    /\ batchDec' = BatchDecSettle([called |-> TRUE, outputs |-> outputs,
                                   first |-> Len(decs) + 1, count |-> Len(outputs),
                                   outcome |-> "pending", error |-> NoError,
                                   results |-> <<>>], decs')
    /\ UNCHANGED <<clients, globalClient, inits, lastEnc, reencs,
                   lastRead, batchEnc, hookEnc, hookDec, ui>>

-----------------------------------------------------------------------------
(* hooks: useEncryptInput, useDecryptOutput *)

\* setIsEncrypting(true); setError(null): the function runs up to its await.
\* pre keeps the state the call found; call names the core call it awaits
HookStart(h, call) ==
    [h EXCEPT !.pre = [isBusy |-> h.isBusy, error |-> h.error],
              !.isBusy = TRUE, !.error = NoError, !.pc = "await",
              !.calls = @ + 1, !.call = call, !.returned = "none"]

\* a catch that stores an error of its own making
HookEndRewriting(h, outcome, error) ==
    IF outcome = "resolved"
    THEN [h EXCEPT !.returned = "result", !.isBusy = FALSE, !.pc = "done"]
    ELSE [h EXCEPT !.error = Error("Operation failed", error.cause),
                   !.returned = "null", !.isBusy = FALSE, !.pc = "done"]

\* return result | catch (err) { setError(err); return null } | finally
\* { setIsEncrypting(false) }
HookEnd(h, outcome, error) ==
    IF outcome = "resolved"
    THEN [h EXCEPT !.returned = "result", !.isBusy = FALSE, !.pc = "done"]
    ELSE [h EXCEPT !.error = error, !.returned = "null",
                   !.isBusy = FALSE, !.pc = "done"]

\* encrypt(options) of useEncryptInput, up to `await encryptInput(options)`:
\* encryptInput has run to its settlement
HookEncrypt(options, fault) ==
    /\ hookEnc.pc # "await"
    /\ hookEnc.calls < MaxHookCalls
    /\ hookEnc' = HookStart(hookEnc, hookEnc.calls + 1)
    /\ lastEnc' = EncCall(TRUE, options, fault, EncryptRun(options, fault))
    /\ UNCHANGED <<clients, globalClient, inits, decs, reencs,
                   lastRead, batchEnc, batchDec, hookDec, ui>>

\* the await of encrypt(options) is over
HookEncryptResume ==
    /\ hookEnc.pc = "await"
    /\ hookEnc' = HookEnd(hookEnc, lastEnc.outcome, lastEnc.error)
    /\ UNCHANGED <<clients, globalClient, inits, lastEnc, decs, reencs,
                   lastRead, batchEnc, batchDec, hookDec, ui>>

\* decrypt(options) of useDecryptOutput, up to `await decryptOutput(options)`:
\* decryptOutput has run to its first await or to its throw
HookDecrypt(options) ==
    /\ hookDec.pc # "await"
    /\ hookDec.calls < MaxHookCalls
    /\ hookDec' = HookStart(hookDec, Len(decs) + 1)
    /\ decs' = Append(decs, DecryptStart(options))
    /\ UNCHANGED <<clients, globalClient, inits, lastEnc, reencs,
                   lastRead, batchEnc, batchDec, hookEnc, ui>>

\* the decryptOutput awaited by decrypt(options) has settled
HookDecryptResume ==
    /\ hookDec.pc = "await"
    /\ decs[hookDec.call].pc = "done"
    /\ hookDec' = HookEnd(hookDec, decs[hookDec.call].outcome,
                          decs[hookDec.call].error)
    /\ UNCHANGED <<clients, globalClient, inits, lastEnc, decs, reencs,
                   lastRead, batchEnc, batchDec, hookEnc, ui>>

\* decrypt(options) called while earlier calls of it may still be in flight:
\* the same code as HookDecrypt, each call kept with the decryptOutput it awaits
HookDecryptOverlapping(options) ==
    /\ Len(hookDecCalls) < MaxOverlap
    /\ hookDec' = HookStart(hookDec, Len(decs) + 1)
    /\ decs' = Append(decs, DecryptStart(options))
    /\ hookDecCalls' = Append(hookDecCalls, [call |-> Len(decs) + 1, pc |-> "await"])
    /\ UNCHANGED <<clients, globalClient, inits, lastEnc, reencs,
                   lastRead, batchEnc, batchDec, hookEnc, useClient, write, demo>>

\* the decryptOutput awaited by the k-th decrypt(options) has settled
HookDecryptSettle(k) ==
    /\ hookDecCalls[k].pc = "await"
    /\ decs[hookDecCalls[k].call].pc = "done"
    /\ hookDec' = HookEnd(hookDec, decs[hookDecCalls[k].call].outcome,
                          decs[hookDecCalls[k].call].error)
    /\ hookDecCalls' = [hookDecCalls EXCEPT ![k].pc = "done"]
    /\ UNCHANGED <<clients, globalClient, inits, lastEnc, decs, reencs,
                   lastRead, batchEnc, batchDec, hookEnc, useClient, write, demo>>

-----------------------------------------------------------------------------
(* hooks: useFhevmClient *)

\* a run of the effect, on mount or when provider or signer changed, up to the
\* first await of initFhevm(newClient): createFhevmClient(options), then the
\* synchronous part of initFhevm on the client just created
EffectRun(provider, signer) ==
    /\ Len(clients) < MaxEffectRuns
    /\ clients # <<>> => clients[Len(clients)].signer # signer
    /\ clients' = Append(clients, NewClient(provider, signer, [k \in {} |-> ""]))
    /\ globalClient' = Len(clients) + 1
    /\ inits' = Append(inits, InitStart(globalClient)')
    /\ UNCHANGED <<lastEnc, decs, reencs, callers>>

\* an await inside the initFhevm of a run resolves, the handshake not yet over
EffectInitResume(i) == InitResumeOk(i)

\* the handshake of a run ends: initFhevm stores the context and resolves, and
\* initialize() runs on: setClient(newClient); setIsInitialized(true)
EffectInitialized(i) ==
    /\ inits[i].pc = "createInstance"
    /\ clients' = InitStore(clients, inits[i].client, NewInstance(i))
    /\ inits' = [inits EXCEPT ![i].pc = "done", ![i].outcome = "resolved"]
    /\ useClient' = [useClient EXCEPT !.client = inits[i].client,
                                      !.isInitialized = TRUE]
    /\ UNCHANGED <<globalClient, lastEnc, decs, reencs,
                   lastRead, batchEnc, batchDec, hookEnc, hookDec,
                   hookDecCalls, write, demo>>

\* the initFhevm of a run rejects: catch (err) { setError(err) }
EffectFailed(i) ==
    /\ inits[i].pc # "done"
    /\ inits' = [inits EXCEPT ![i] = InitCatch(@, InitFailureAt(inits[i].pc))]
    /\ useClient' = [useClient EXCEPT
                        !.error = InitCatch(inits[i], InitFailureAt(inits[i].pc)).error]
    /\ UNCHANGED <<clients, globalClient, lastEnc, decs, reencs,
                   lastRead, batchEnc, batchDec, hookEnc, hookDec,
                   hookDecCalls, write, demo>>

-----------------------------------------------------------------------------
(* hooks: useFhevmContract.writeEncrypted *)

ContractFunctions == {"placeBet"}

SignerNotAvailableError == Error("Signer not available", NoCause)
EncryptionFailedError == Error("Encryption failed", NoCause)
EthersImportFailure == Error("cannot load ethers", NoCause)
ContractCallFailure == Error("transaction reverted", NoCause)

\* the proof passed first
WriteArgsProofFirst(encrypted) == <<encrypted.inputProof>> \o encrypted.handles

\* (...encrypted.handles, encrypted.inputProof)
WriteArgs(encrypted) == Append(encrypted.handles, encrypted.inputProof)

\* writeEncrypted(functionName, encryptedArgs) up to `await encrypt(...)`;
\* client is the one getFhevmClient() returned when the hook last rendered
WriteEncrypted(client, functionName, encryptedArgs, fault) ==
    /\ ~write.called
    /\ IF client = NoClient \/ Snapshot(client).signer = NoSigner
       THEN /\ write' = [NoWrite EXCEPT !.called = TRUE, !.client = client,
                                        !.fn = functionName,
                                        !.pc = "done", !.outcome = "rejected",
                                        !.error = SignerNotAvailableError]
            /\ UNCHANGED <<hookEnc, lastEnc>>
       ELSE /\ write' = [NoWrite EXCEPT !.called = TRUE, !.client = client,
                                        !.fn = functionName,
                                        !.pre = [signer |-> clients[client].signer],
                                        !.pc = "encrypt", !.outcome = "pending"]
            /\ hookEnc' = HookStart(hookEnc, hookEnc.calls + 1)
            /\ lastEnc' = EncCall(TRUE, encryptedArgs, fault,
                                  EncryptRun(encryptedArgs, fault))
    /\ UNCHANGED <<clients, globalClient, inits, decs, reencs,
                   lastRead, batchEnc, batchDec, hookDec, useClient, hookDecCalls, demo>>

\* encrypt(...) has returned: if (!encrypted) throw; else await import('ethers')
WriteEncryptedResume ==
    /\ write.pc = "encrypt"
    /\ hookEnc' = HookEnd(hookEnc, lastEnc.outcome, lastEnc.error)
    /\ write' = IF hookEnc'.returned = "null"
                THEN [write EXCEPT !.pc = "done", !.outcome = "rejected",
                                   !.error = EncryptionFailedError]
                ELSE [write EXCEPT !.pc = "import", !.encrypted = lastEnc.result]
    /\ UNCHANGED <<clients, globalClient, inits, lastEnc, decs, reencs,
                   lastRead, batchEnc, batchDec, hookDec, useClient, hookDecCalls, demo>>

\* the import has resolved: new ethers.Contract(contractAddress, abi,
\* client.signer); return contract[functionName](...)
WriteInvoke ==
    /\ write.pc = "import"
    /\ write' = [write EXCEPT !.pc = "invoke",
                    !.invoke = [on |-> "0xContract",
                                signer |-> clients[write.client].signer,
                                fn |-> write.fn,
                                args |-> WriteArgs(write.encrypted)]]
    /\ UNCHANGED <<clients, globalClient, inits, lastEnc, decs, reencs,
                   lastRead, batchEnc, batchDec, hookEnc, hookDec, useClient,
                   hookDecCalls, demo>>

\* the import rejects, or the contract call settles: writeEncrypted settles
\* as they do
WriteSettle(ok) ==
    /\ write.pc \in {"import", "invoke"}
    /\ write.pc = "import" => ~ok
    /\ write' = IF ok
                THEN [write EXCEPT !.pc = "done", !.outcome = "resolved"]
                ELSE [write EXCEPT !.pc = "done", !.outcome = "rejected",
                                   !.error = IF write.pc = "import"
                                             THEN EthersImportFailure
                                             ELSE ContractCallFailure]
    /\ UNCHANGED <<clients, globalClient, inits, lastEnc, decs, reencs,
                   lastRead, batchEnc, batchDec, hookEnc, hookDec, useClient,
                   hookDecCalls, demo>>

-----------------------------------------------------------------------------
(* examples/vanilla-js: the demo page *)

\* the click handler of connectBtn with the wallet connected, then
\* initializeFhevm() up to `await initFhevm(client)`
DemoConnect ==
    /\ demo.connectBtn
    /\ clients' = Append(clients, NewClient("provider", "signerA", [k \in {} |-> ""]))
    /\ globalClient' = Len(clients) + 1
    /\ inits' = Append(inits, InitStart(globalClient)')
    /\ demo' = [demo EXCEPT !.connectBtn = FALSE, !.client = Len(clients) + 1,
                            !.fhevmStatus = "pending"]
    /\ UNCHANGED <<lastEnc, decs, reencs, lastRead, batchEnc, batchDec, hookEnc, hookDec,
                   useClient, hookDecCalls, write>>

\* initFhevm(client) resolves: status success, both buttons enabled
DemoInitialized(i) ==
    /\ inits[i].pc = "createInstance"
    /\ clients' = InitStore(clients, inits[i].client, NewInstance(i))
    /\ inits' = [inits EXCEPT ![i].pc = "done", ![i].outcome = "resolved"]
    /\ demo' = [demo EXCEPT !.fhevmStatus = "success", !.encryptBtn = TRUE,
                            !.decryptBtn = TRUE]
    /\ UNCHANGED <<globalClient, lastEnc, decs, reencs, lastRead, batchEnc, batchDec, hookEnc, hookDec,
                   useClient, hookDecCalls, write>>

\* initFhevm(client) rejects: the catch of initializeFhevm shows the error
DemoInitFailed(i) ==
    /\ inits[i].pc # "done"
    /\ inits' = [inits EXCEPT ![i] = InitCatch(@, InitFailureAt(inits[i].pc))]
    /\ demo' = [demo EXCEPT !.fhevmStatus = "error"]
    /\ UNCHANGED <<clients, globalClient, lastEnc, decs, reencs, lastRead, batchEnc, batchDec, hookEnc, hookDec,
                   useClient, hookDecCalls, write>>

\* the click handler of encryptBtn up to `await encryptInput(...)`
DemoEncryptClick(options, fault) ==
    /\ demo.encryptBtn
    /\ IF demo.client = NoClient \/ ~clients[demo.client].isInitialized
       THEN /\ demo' = [demo EXCEPT !.encryptResult = "error"]
            /\ UNCHANGED lastEnc
       ELSE /\ demo' = [demo EXCEPT !.encryptBtn = FALSE, !.encrypting = TRUE,
                                    !.encryptResult = "pending"]
            /\ lastEnc' = EncCall(TRUE, options, fault, EncryptRun(options, fault))
    /\ UNCHANGED <<clients, globalClient, inits, decs, reencs, lastRead, batchEnc, batchDec, hookEnc, hookDec,
                   useClient, hookDecCalls, write>>

\* the handler of encryptBtn after its await: the result shown, or the catch
DemoEncryptDone ==
    /\ demo.encrypting
    /\ demo' = [demo EXCEPT !.encrypting = FALSE, !.encryptBtn = TRUE,
                    !.encryptResult = IF lastEnc.outcome = "resolved"
                                      THEN "success" ELSE "error"]
    /\ UNCHANGED <<clients, globalClient, inits, lastEnc, decs, reencs,
                   lastRead, batchEnc, batchDec, hookEnc, hookDec,
                   useClient, hookDecCalls, write>>

\* decryptOutput({ handle, contractAddress, userAddress }): the options hold
\* no encryptedValue and no useUserDecrypt
DemoDecryptOptions ==
    [encryptedValue |-> [encoder |-> "undefined", plaintext |-> 0],
     contractAddress |-> "0xContract", userAddress |-> "0xUser",
     useUserDecrypt |-> "undefined"]

\* the click handler of decryptBtn up to `await decryptOutput(...)`
DemoDecryptClick ==
    /\ demo.decryptBtn
    /\ Len(decs) < MaxDemoClicks
    /\ IF demo.client = NoClient \/ ~clients[demo.client].isInitialized
       THEN /\ demo' = [demo EXCEPT !.decryptResult = "error"]
            /\ UNCHANGED decs
       ELSE /\ demo' = [demo EXCEPT !.decryptBtn = FALSE, !.awaiting = TRUE,
                                    !.dec = Len(decs) + 1,
                                    !.decryptResult = "pending"]
            /\ decs' = Append(decs, DecryptStart(DemoDecryptOptions))
    /\ UNCHANGED <<clients, globalClient, inits, lastEnc, reencs, lastRead, batchEnc, batchDec, hookEnc, hookDec,
                   useClient, hookDecCalls, write>>

\* the handler of decryptBtn after its await: 'Decryption successful' with
\* whatever decryptOutput resolved to, or the catch when it rejected
DemoDecryptDone ==
    /\ demo.awaiting
    /\ decs[demo.dec].pc = "done"
    /\ demo' = [demo EXCEPT !.awaiting = FALSE, !.decryptBtn = TRUE,
                    !.decryptResult = IF decs[demo.dec].outcome = "resolved"
                                      THEN "success" ELSE "error"]
    /\ UNCHANGED <<clients, globalClient, inits, lastEnc, decs, reencs,
                   lastRead, batchEnc, batchDec, hookEnc, hookDec,
                   useClient, hookDecCalls, write>>

-----------------------------------------------------------------------------
(* core/client.ts, core/init.ts: the read-only functions, called *)

\* a call that returned: a client (getFhevmClient) or a boolean (the others)
ReadCall(fn, arg, client, flag) ==
    [fn |-> fn, arg |-> arg, outcome |-> "returned", value |-> client, flag |-> flag]

CallGetFhevmClient ==
    /\ lastRead' = ReadCall("getFhevmClient", NoClient, getFhevmClient, FALSE)
    /\ UNCHANGED <<clients, globalClient, inits, lastEnc, decs, reencs,
                   batchEnc, batchDec, hookEnc, hookDec, ui>>

CallIsClientInitialized ==
    /\ lastRead' = ReadCall("isClientInitialized", NoClient, NoClient,
                            isClientInitialized)
    /\ UNCHANGED <<clients, globalClient, inits, lastEnc, decs, reencs,
                   batchEnc, batchDec, hookEnc, hookDec, ui>>

CallIsFhevmReady(arg) ==
    /\ lastRead' = ReadCall("isFhevmReady", arg, NoClient, isFhevmReady(arg))
    /\ UNCHANGED <<clients, globalClient, inits, lastEnc, decs, reencs,
                   batchEnc, batchDec, hookEnc, hookDec, ui>>

-----------------------------------------------------------------------------
(* The program: a caller invoking the SDK, and the environment settling the *)
(* awaited calls in any order                                               *)

NoEncCall ==
    [called |-> FALSE,
     options |-> [values |-> <<>>, contractAddress |-> "", userAddress |-> ""],
     fault |-> 0, client |-> NoClient, pre |-> Snapshot(NoClient),
     instance |-> NoInstance, outcome |-> "none", error |-> NoError, log |-> <<>>,
     result |-> NoEncrypted]

Init ==
    /\ clients = <<>>
    /\ globalClient = NoClient
    /\ inits = <<>>
    /\ lastEnc = NoEncCall
    /\ decs = <<>>
    /\ reencs = <<>>
    /\ NoCallers

\* the batches the lifecycle specification encrypts: a supported value, an
\* unsupported tag, and both
LifecycleBatches ==
    { <<[value |-> 1, type |-> "euint32"]>>,
      <<[value |-> 1, type |-> "euint256"]>>,
      <<[value |-> 1, type |-> "euint32"], [value |-> 1, type |-> "eaddress"]>> }

LifecycleEncryptOptions ==
    [values : LifecycleBatches, contractAddress : Contracts, userAddress : Users]

\* the configuration the lifecycle's callers pass: one override, three defaults
LifecycleOverrides == { o \in ConfigOverrides : DOMAIN o # {} }

\* the client lifecycle: creation, reset, signer change and initialization
Next ==
    \/ \E p \in Providers, s \in Signers \cup {NoSigner}, o \in LifecycleOverrides :
            createFhevmClient(p, s, o)
    \/ resetClient
    \/ \E s \in Signers : updateClientSigner(s)
    \/ \E arg \in 0..Len(clients) : initFhevm(arg)
    \/ \E i \in 1..Len(inits) : InitResumeOk(i)
    \/ \E i \in 1..Len(inits) : InitFinish(i)
    \/ \E i \in 1..Len(inits) : InitResumeFail(i)

Spec == Init /\ [][Next]_vars

\* no operation has been called yet
NoOperationYet == ~lastEnc.called /\ decs = <<>> /\ reencs = <<>>

\* one operation, called in any state of the client lifecycle and suspended
\* across any of its steps (the operations share no state with each other: each
\* reads the client and writes nothing, so one call per behaviour shows them all)
NextOps ==
    \/ /\ Len(clients) < OpsClients
       /\ \E p \in Providers, s \in Signers \cup {NoSigner}, o \in LifecycleOverrides :
            createFhevmClient(p, s, o)
    \/ resetClient
    \/ \E s \in Signers : updateClientSigner(s)
    \/ /\ Len(inits) < OpsInits
       /\ \E arg \in 0..Len(clients) : initFhevm(arg)
    \/ \E i \in 1..Len(inits) : InitResumeOk(i)
    \/ \E i \in 1..Len(inits) : InitFinish(i)
    \/ \E i \in 1..Len(inits) : InitResumeFail(i)
    \/ /\ NoOperationYet
       /\ \E o \in LifecycleEncryptOptions : \E f \in Faults(o) : encryptInput(o, f)
    \/ /\ NoOperationYet
       /\ \E o \in DecryptOptions : decryptOutput(o)
    \/ /\ NoOperationYet
       /\ \E h \in EncryptedValues, c \in Contracts, t \in Targets :
            reencryptValue(h, c, t)
    \/ \E i \in 1..Len(decs) : DecryptResumeOk(i)
    \/ \E i \in 1..Len(decs) : \E c \in DecryptFailuresAt(decs[i].pc) :
            DecryptResumeFail(i, c)
    \/ \E i \in 1..Len(reencs) : ReencryptResumeOk(i)
    \/ \E i \in 1..Len(reencs) : ReencryptResumeFail(i)

SpecOps == Init /\ [][NextOps]_vars

\* A Ready client with a signer, as create and a successful initFhevm leave it
ReadyClients ==
    InitStore(<<NewClient("provider", "signerA", [k \in {} |-> ""])>>, 1, NewInstance(1))

InitEnc ==
    /\ clients = ReadyClients
    /\ globalClient = 1
    /\ inits = <<[client |-> 1, pc |-> "done", outcome |-> "resolved",
                  error |-> NoError,
                  log |-> <<"import", "getNetwork", "createInstance">>,
                  pre |-> [isInitialized |-> FALSE, instance |-> NoInstance]]>>
    /\ lastEnc = NoEncCall
    /\ decs = <<>>
    /\ reencs = <<>>
    /\ NoCallers

\* one encryptInput on the Ready client, over every batch of up to MaxBatch
\* values and every place at which the context can throw
NextEnc ==
    /\ ~lastEnc.called
    /\ \E o \in EncryptOptions(MaxBatch) : \E f \in Faults(o) : encryptInput(o, f)

SpecEnc == InitEnc /\ [][NextEnc]_vars

\* a field written in the overrides with the value undefined
Undefined == "undefined"

\* the values a caller can give each field of Partial<FhevmConfig>
OverrideValues ==
    [network |-> {"mainnet", Undefined},
     gatewayUrl |-> {"https://gateway.zama.ai", Undefined},
     aclAddress |-> {"0xACL", Undefined},
     kmsVerifierAddress |-> {"0xKMS", Undefined}]

\* every partial configuration: any subset of the fields, each with a value
\* or with undefined
PartialConfigs ==
    UNION { { o \in [K -> UNION {OverrideValues[k] : k \in ConfigKeys}] :
                \A k \in K : o[k] \in OverrideValues[k] } : K \in SUBSET ConfigKeys }

\* clients created one after the other, over every partial configuration
NextConfig == \E o \in PartialConfigs : createFhevmClient("provider", "signerA", o)

SpecConfig == Init /\ [][NextConfig]_vars

\* the euint32 values of the round trip, up to the largest signed 32-bit one
RoundTripValues == {0, 1, 300, 65536, 2147483647}

RoundTripEncryptOptions ==
    [values : { <<[value |-> v, type |-> "euint32"]>> : v \in RoundTripValues },
     contractAddress : Contracts, userAddress : Users]

\* a caller that encrypts one euint32 value on the Ready client and then
\* decrypts the handle it got back
NextRoundTrip ==
    \/ /\ ~lastEnc.called
       /\ \E o \in RoundTripEncryptOptions : \E f \in Faults(o) : encryptInput(o, f)
    \/ /\ lastEnc.outcome = "resolved"
       /\ decs = <<>>
       /\ \E m \in Modes :
            decryptOutput([encryptedValue |-> lastEnc.result.handles[1],
                           contractAddress |-> lastEnc.options.contractAddress,
                           userAddress |-> lastEnc.options.userAddress,
                           useUserDecrypt |-> m])
    \/ \E i \in 1..Len(decs) : DecryptResumeOk(i)
    \/ \E i \in 1..Len(decs) : \E c \in DecryptFailuresAt(decs[i].pc) :
            DecryptResumeFail(i, c)

SpecRoundTrip == InitEnc /\ [][NextRoundTrip]_vars

\* the client lifecycle with the read-only functions called in every state
NextReads ==
    \/ /\ Len(clients) < OpsClients
       /\ \E p \in Providers, s \in Signers \cup {NoSigner}, o \in LifecycleOverrides :
            createFhevmClient(p, s, o)
    \/ resetClient
    \/ \E s \in Signers : updateClientSigner(s)
    \/ /\ Len(inits) < OpsInits
       /\ \E arg \in 0..Len(clients) : initFhevm(arg)
    \/ \E i \in 1..Len(inits) : InitResumeOk(i)
    \/ \E i \in 1..Len(inits) : InitFinish(i)
    \/ \E i \in 1..Len(inits) : InitResumeFail(i)
    \/ CallGetFhevmClient
    \/ CallIsClientInitialized
    \/ \E arg \in 0..Len(clients) : CallIsFhevmReady(arg)

SpecReads == Init /\ [][NextReads]_vars

\* the requests of a batch: two that differ in value and width, and one with
\* a tag that has no encoder
BatchEncryptRequests ==
    [values : { <<[value |-> 1, type |-> "euint32"]>>,
                <<[value |-> 300, type |-> "euint16"]>>,
                <<[value |-> 1, type |-> "euint256"]>> },
     contractAddress : Contracts, userAddress : Users]

\* one batchEncryptInputs of up to MaxBatch requests on the Ready client, the
\* context throwing at any call of any request
NextBatchEnc ==
    /\ ~batchEnc.called
    /\ \E k \in 1..MaxBatch : \E inputs \in [1..k -> BatchEncryptRequests] :
            \E faults \in [1..k -> UNION {Faults(r) : r \in BatchEncryptRequests}] :
                /\ \A i \in 1..k : faults[i] \in Faults(inputs[i])
                /\ batchEncryptInputs(inputs, faults)

SpecBatchEnc == InitEnc /\ [][NextBatchEnc]_vars

\* the requests of a decryption batch: two handles, either mode
BatchDecryptRequests ==
    [encryptedValue : { Handle(Call("add32", <<v>>)) : v \in PlainValues },
     contractAddress : Contracts, userAddress : Users,
     useUserDecrypt : {"undefined", "false"}]

\* one batchDecryptOutputs of up to MaxBatch requests on the Ready client, its
\* slots settling in any order, each succeeding or failing at any await
NextBatchDec ==
    \/ /\ ~batchDec.called
       /\ \E k \in 1..MaxBatch : \E outputs \in [1..k -> BatchDecryptRequests] :
            batchDecryptOutputs(outputs)
    \/ \E i \in 1..Len(decs) : DecryptResumeOk(i)
    \/ \E i \in 1..Len(decs) : \E c \in DecryptFailuresAt(decs[i].pc) :
            DecryptResumeFail(i, c)

SpecBatchDec == InitEnc /\ [][NextBatchDec]_vars

\* the record of an initFhevm call that made client 1 Ready
CompletedInit ==
    [client |-> 1, pc |-> "done", outcome |-> "resolved", error |-> NoError,
     log |-> <<"import", "getNetwork", "createInstance">>,
     pre |-> [isInitialized |-> FALSE, instance |-> NoInstance]]

\* the states an operation can be called in: no client; one client, created
\* with or without a signer, initialized or not, current or reset away
CallStates ==
    {[clients |-> <<>>, globalClient |-> NoClient, inits |-> <<>>]}
    \cup { [clients |-> <<NewClient("provider", s, [k \in {} |-> ""])>>,
            globalClient |-> g, inits |-> <<>>] :
                s \in {"signerA", NoSigner}, g \in {NoClient, 1} }
    \cup { [clients |-> InitStore(<<NewClient("provider", s, [k \in {} |-> ""])>>,
                                  1, NewInstance(1)),
            globalClient |-> g, inits |-> <<CompletedInit>>] :
                s \in {"signerA", NoSigner}, g \in {NoClient, 1} }

InitFrame ==
    /\ \E st \in CallStates :
            /\ clients = st.clients
            /\ globalClient = st.globalClient
            /\ inits = st.inits
    /\ lastEnc = NoEncCall
    /\ decs = <<>>
    /\ reencs = <<>>
    /\ NoCallers

\* none of the five operations has been called yet
NoFrameOperationYet == NoOperationYet /\ ~batchEnc.called /\ ~batchDec.called

\* one of the five operations, called in one of the call states, its awaits
\* settled by the environment
NextFrame ==
    \/ /\ NoFrameOperationYet
       /\ \E o \in LifecycleEncryptOptions : \E f \in Faults(o) : encryptInput(o, f)
    \/ /\ NoFrameOperationYet
       /\ \E o \in DecryptOptions : decryptOutput(o)
    \/ /\ NoFrameOperationYet
       /\ \E h \in EncryptedValues, c \in Contracts, t \in Targets :
            reencryptValue(h, c, t)
    \/ /\ NoFrameOperationYet
       /\ \E k \in 1..MaxBatch : \E inputs \in [1..k -> BatchEncryptRequests] :
            \E faults \in [1..k -> UNION {Faults(r) : r \in BatchEncryptRequests}] :
                /\ \A i \in 1..k : faults[i] \in Faults(inputs[i])
                /\ batchEncryptInputs(inputs, faults)
    \/ /\ NoFrameOperationYet
       /\ \E k \in 1..MaxBatch : \E outputs \in [1..k -> BatchDecryptRequests] :
            batchDecryptOutputs(outputs)
    \/ \E i \in 1..Len(decs) : DecryptResumeOk(i)
    \/ \E i \in 1..Len(decs) : \E c \in DecryptFailuresAt(decs[i].pc) :
            DecryptResumeFail(i, c)
    \/ \E i \in 1..Len(reencs) : ReencryptResumeOk(i)
    \/ \E i \in 1..Len(reencs) : ReencryptResumeFail(i)

SpecFrame == InitFrame /\ [][NextFrame]_vars

\* a component that uses one of the two hooks and calls its function, one
\* call after the other, in one of the call states
NextHooks ==
    \/ /\ hookDec.calls = 0
       /\ \E o \in LifecycleEncryptOptions : \E f \in Faults(o) : HookEncrypt(o, f)
    \/ HookEncryptResume
    \/ /\ hookEnc.calls = 0
       /\ \E o \in DecryptOptions : HookDecrypt(o)
    \/ HookDecryptResume
    \/ \E i \in 1..Len(decs) : DecryptResumeOk(i)
    \/ \E i \in 1..Len(decs) : \E c \in DecryptFailuresAt(decs[i].pc) :
            DecryptResumeFail(i, c)

SpecHooks == InitFrame /\ [][NextHooks]_vars

\* a component that uses useFhevmClient: its effect runs on mount and again
\* when the signer changes, and the handshakes end in any order
NextUseClient ==
    \/ \E p \in Providers, s \in Signers \cup {NoSigner} : EffectRun(p, s)
    \/ \E i \in 1..Len(inits) : EffectInitResume(i)
    \/ \E i \in 1..Len(inits) : EffectInitialized(i)
    \/ \E i \in 1..Len(inits) : EffectFailed(i)

SpecUseClient == Init /\ [][NextUseClient]_vars

\* a component that calls decrypt() of its useDecryptOutput again before
\* the earlier call has ended, on a Ready client
NextOverlap ==
    \/ \E o \in DecryptOptions : HookDecryptOverlapping(o)
    \/ \E k \in 1..Len(hookDecCalls) : HookDecryptSettle(k)
    \/ \E i \in 1..Len(decs) : DecryptResumeOk(i)
    \/ \E i \in 1..Len(decs) : \E c \in DecryptFailuresAt(decs[i].pc) :
            DecryptResumeFail(i, c)

SpecOverlap == InitEnc /\ [][NextOverlap]_vars

\* the batches written to a contract: two values, an unsupported tag, one value
WriteBatches ==
    { <<[value |-> 1, type |-> "euint8"], [value |-> 300, type |-> "euint16"]>>,
      <<[value |-> 1, type |-> "euint256"]>>,
      <<[value |-> 1, type |-> "ebool"]>> }

WriteEncryptOptions ==
    [values : WriteBatches, contractAddress : Contracts, userAddress : Users]

\* one writeEncrypted of a component that uses useFhevmContract, called in one
\* of the call states
NextWrite ==
    \/ \E c \in 0..Len(clients), fn \in ContractFunctions,
          o \in WriteEncryptOptions : \E f \in Faults(o) : WriteEncrypted(c, fn, o, f)
    \/ WriteEncryptedResume
    \/ WriteInvoke
    \/ \E ok \in BOOLEAN : WriteSettle(ok)

SpecWrite == InitFrame /\ [][NextWrite]_vars

\* the values the demo's user encrypts
DemoEncryptOptions ==
    [values : {<<[value |-> 1, type |-> "euint32"]>>,
               <<[value |-> 1, type |-> "eaddress"]>>},
     contractAddress : Contracts, userAddress : Users]

\* a user of the demo page: connects the wallet, then clicks the buttons that
\* are enabled, while the awaited calls settle
NextDemo ==
    \/ DemoConnect
    \/ \E i \in 1..Len(inits) : InitResumeOk(i)
    \/ \E i \in 1..Len(inits) : DemoInitialized(i)
    \/ \E i \in 1..Len(inits) : DemoInitFailed(i)
    \/ \E o \in DemoEncryptOptions : \E f \in Faults(o) : DemoEncryptClick(o, f)
    \/ DemoEncryptDone
    \/ DemoDecryptClick
    \/ DemoDecryptDone
    \/ \E i \in 1..Len(decs) : DecryptResumeOk(i)
    \/ \E i \in 1..Len(decs) : \E c \in DecryptFailuresAt(decs[i].pc) :
            DecryptResumeFail(i, c)

SpecDemo == Init /\ [][NextDemo]_vars

-----------------------------------------------------------------------------
(* Claims *)

InitCalls == 1..Len(inits)
DecCalls == 1..Len(decs)
ReencCalls == 1..Len(reencs)

\* the call made the named call on its environment
Ran(call, fn) == \E k \in 1..Len(call.log) : call.log[k] = fn
Made(call, fn) == \E k \in 1..Len(call.log) : call.log[k].fn = fn

\* the operation was called while the current client was absent or not initialized
NotReadyAtCall(call) == call.client = NoClient \/ ~call.pre.isInitialized

FailedNotInitialized(call) ==
    /\ call.outcome = "rejected"
    /\ call.error = NotInitializedError
    /\ call.log = <<>>

\* C1: encryptInput, decryptOutput and reencryptValue called while the current
\* client is absent or has isInitialized = false fail with the not-initialized
\* error and make no call on the provider, the signer or the opaque context.
C1_NotInitializedFailsWithoutCalls ==
    /\ (lastEnc.called /\ NotReadyAtCall(lastEnc)) => FailedNotInitialized(lastEnc)
    /\ \A i \in DecCalls : NotReadyAtCall(decs[i]) => FailedNotInitialized(decs[i])
    /\ \A i \in ReencCalls : NotReadyAtCall(reencs[i]) => FailedNotInitialized(reencs[i])

\* a decryptOutput was called on a created client that is not initialized, and
\* was refused
C1_Witness ==
    \E i \in DecCalls :
        /\ decs[i].client # NoClient
        /\ ~decs[i].pre.isInitialized
        /\ decs[i].pre.signer # NoSigner
        /\ FailedNotInitialized(decs[i])

\* C2: while initFhevm calls on the same client overlap (both suspended at an
\* await), the handshake (provider.getNetwork, then createInstance) has been
\* executed at most once in total for that client.
C2_OverlappingInitsShareOneHandshake ==
    \A i, j \in InitCalls :
        (/\ i # j
         /\ inits[i].client = inits[j].client
         /\ inits[i].pc # "done"
         /\ inits[j].pc # "done")
        => ~(Ran(inits[i], "getNetwork") /\ Ran(inits[j], "getNetwork"))

\* C3: an initFhevm called on a client on which an earlier initFhevm has
\* completed successfully resolves at once, calls neither provider.getNetwork
\* nor createInstance (nor the import), and leaves the client unchanged.
C3_SecondInitIsNoOp ==
    [][\A c \in 1..Len(clients) :
        (/\ Len(inits') = Len(inits) + 1
         /\ inits'[Len(inits')].client = c
         /\ \E i \in InitCalls : /\ inits[i].client = c
                                 /\ inits[i].outcome = "resolved")
        => /\ inits'[Len(inits')].pc = "done"
           /\ inits'[Len(inits')].outcome = "resolved"
           /\ inits'[Len(inits')].log = <<>>
           /\ clients'[c] = clients[c]
           /\ clients'[c].isInitialized]_vars

\* a second initFhevm on a Ready client has resolved without a handshake
C3_Witness ==
    \E i, j \in InitCalls :
        /\ i < j
        /\ inits[i].client = inits[j].client
        /\ inits[i].outcome = "resolved"
        /\ Ran(inits[i], "createInstance")
        /\ inits[j].pre.isInitialized
        /\ inits[j].outcome = "resolved"
        /\ inits[j].log = <<>>

\* C4: when the handshake of an initFhevm call fails at any step, the call
\* rejects with the initialization error carrying the cause, and the client's
\* isInitialized and instance have the values they had before the call.
C4_FailedInitLeavesClientAsBefore ==
    [][\A i \in InitCalls :
        (inits[i].pc # "done" /\ inits'[i].outcome = "rejected")
        => /\ inits'[i].error = InitializationError(InitFailureAt(inits[i].pc))
           /\ inits'[i].error.cause # NoCause
           /\ clients'[inits[i].client].isInitialized = inits[i].pre.isInitialized
           /\ clients'[inits[i].client].instance = inits[i].pre.instance]_vars

\* the call passed the preconditions of encryptInput and decryptOutput
ReadyWithSigner(call) ==
    /\ call.client # NoClient
    /\ call.pre.isInitialized
    /\ call.pre.signer # NoSigner

\* C5 as stated: encryptInput called while the current client has no signer
\* fails with the signer-required error before any access to the opaque
\* context, in every state of the client (also before any initFhevm).
C5_NoSignerAlwaysSignerRequired ==
    (lastEnc.called /\ lastEnc.client # NoClient /\ lastEnc.pre.signer = NoSigner)
    => /\ lastEnc.outcome = "rejected"
       /\ lastEnc.error = EncryptSignerRequiredError
       /\ lastEnc.log = <<>>

\* C5 amended: encryptInput called while the current client has no signer is
\* rejected without any call on the opaque context; the error is the
\* signer-required error when the client is initialized and the
\* not-initialized error when it is not.
C5_NoSignerRejectedInitializedFirst ==
    (lastEnc.called /\ lastEnc.client # NoClient /\ lastEnc.pre.signer = NoSigner)
    => /\ lastEnc.outcome = "rejected"
       /\ lastEnc.log = <<>>
       /\ lastEnc.error = IF lastEnc.pre.isInitialized
                          THEN EncryptSignerRequiredError
                          ELSE NotInitializedError

\* encryptInput was refused for the missing signer on a Ready client
C5_Witness ==
    /\ lastEnc.called
    /\ lastEnc.client # NoClient
    /\ lastEnc.pre.isInitialized
    /\ lastEnc.pre.signer = NoSigner
    /\ lastEnc.error = EncryptSignerRequiredError

\* the encoder each supported tag stands for
WidthEncoder ==
    [euint8 |-> "add8", euint16 |-> "add16", euint32 |-> "add32",
     euint64 |-> "add64", euint128 |-> "add128", ebool |-> "addBool"]

SupportedTags == DOMAIN WidthEncoder

AllSupported(values) == \A i \in 1..Len(values) : values[i].type \in SupportedTags

CountOf(log, fn) == Cardinality({k \in 1..Len(log) : log[k].fn = fn})

\* C6: for a batch of N >= 1 values with supported tags, a successful
\* encryptInput calls one encoder per value, in input order and matching the
\* value's tag, then the finalizer once, and returns N handles in input order
\* with the one proof of that finalizer call.
C6_OneEncoderPerValueOneProof ==
    (/\ lastEnc.called
     /\ lastEnc.outcome = "resolved"
     /\ AllSupported(lastEnc.options.values))
    => LET values == lastEnc.options.values
           n == Len(values)
           log == lastEnc.log
       IN  /\ n >= 1
           /\ Len(log) = n + 2
           /\ \A i \in 1..n :
                /\ log[i + 1].fn = WidthEncoder[values[i].type]
                /\ log[i + 1].args = <<values[i].value>>
           /\ CountOf(log, "encrypt") = 1
           /\ log[n + 2].fn = "encrypt"
           /\ Len(lastEnc.result.handles) = n
           /\ \A i \in 1..n :
                lastEnc.result.handles[i] =
                    [encoder |-> WidthEncoder[values[i].type],
                     plaintext |-> values[i].value]
           /\ lastEnc.result.inputProof = [finalizer |-> n + 2, covers |-> n]

\* a batch of two values of different widths was encrypted
C6_Witness ==
    /\ lastEnc.called
    /\ lastEnc.outcome = "resolved"
    /\ Len(lastEnc.options.values) = 2
    /\ lastEnc.options.values[1].type = "euint16"
    /\ lastEnc.options.values[2].type = "ebool"
    /\ lastEnc.options.values[1].value # lastEnc.options.values[2].value
    /\ Len(lastEnc.result.handles) = 2

\* the decryptOutput call hit a failure of its environment
Failed(call) == call.pc = "done" /\ call.logged # NoCause

\* C7: once decryptOutput has passed its preconditions, any failure in the
\* permissioned or the public path makes the call resolve with success = false
\* and the empty plaintext; the call never rejects.
C7_DecryptFailureBecomesResult ==
    \A i \in DecCalls :
        ReadyWithSigner(decs[i])
        => /\ decs[i].outcome # "rejected"
           /\ Failed(decs[i])
              => /\ decs[i].outcome = "resolved"
                 /\ decs[i].value = DecryptionResult(EmptyString, FALSE)

\* the signer refused to sign and the call resolved with success = false
C7_Witness ==
    \E i \in DecCalls :
        /\ ReadyWithSigner(decs[i])
        /\ decs[i].logged = Cause("user rejected the signature", "")
        /\ decs[i].outcome = "resolved"
        /\ decs[i].value.success = FALSE

\* C8: decryptOutput throws to its caller when the user has no permission to
\* decrypt the handle or when the handle is invalid, and otherwise resolves to
\* the decrypted value itself.
C8_DecryptThrowsOrReturnsValue ==
    \A i \in DecCalls :
        (ReadyWithSigner(decs[i]) /\ decs[i].pc = "done")
        => IF decs[i].logged \in {Cause("no permission to decrypt", ""),
                                  Cause("invalid handle", "")}
           THEN decs[i].outcome = "rejected"
           ELSE decs[i].logged = NoCause
                => /\ decs[i].outcome = "resolved"
                   /\ decs[i].value = Number(decs[i].options.encryptedValue.plaintext)

\* the first tag of the batch that has no encoder
RECURSIVE FirstUnsupported(_)
FirstUnsupported(values) ==
    IF Head(values).type \in SupportedTags
    THEN FirstUnsupported(Tail(values))
    ELSE Head(values).type

\* C9 as stated: with an unsupported tag in the batch, the error that reaches
\* the caller is the unsupported-type error naming the tag, distinguishable
\* from the generic encryption failure, and the finalizer is never called.
C9_UnsupportedTypeErrorReachesCaller ==
    (/\ lastEnc.called
     /\ ReadyWithSigner(lastEnc)
     /\ lastEnc.fault = 0
     /\ ~AllSupported(lastEnc.options.values))
    => /\ lastEnc.outcome = "rejected"
       /\ lastEnc.error.msg =
            UnsupportedTypeError(FirstUnsupported(lastEnc.options.values)).msg
       /\ lastEnc.error.msg # EncryptionError(NoCause).msg
       /\ ~Made(lastEnc, "encrypt")

\* C9 amended: with an unsupported tag in the batch, the finalizer is never
\* called and the call rejects; the error that reaches the caller is the
\* generic encryption failure, whose cause is the unsupported-type error naming
\* the first such tag (when the context itself throws nothing).
C9_UnsupportedTypeWrappedNoFinalizer ==
    (/\ lastEnc.called
     /\ ReadyWithSigner(lastEnc)
     /\ ~AllSupported(lastEnc.options.values))
    => /\ lastEnc.outcome = "rejected"
       /\ ~Made(lastEnc, "encrypt")
       /\ lastEnc.error.msg = EncryptionError(NoCause).msg
       /\ lastEnc.fault = 0
          => lastEnc.error.cause =
                [msg |-> "Unsupported type",
                 arg |-> FirstUnsupported(lastEnc.options.values)]

\* a batch whose second value has a tag outside the enumeration was refused
\* after its first value had been encoded
C9_Witness ==
    /\ lastEnc.called
    /\ lastEnc.fault = 0
    /\ Len(lastEnc.options.values) = 2
    /\ lastEnc.options.values[2].type = "euint256"
    /\ CountOf(lastEnc.log, "add32") = 1
    /\ lastEnc.error.cause.arg = "euint256"

\* C10: for each member of FhevmType, a batch holding one value of that type is
\* encoded and encrypted successfully on a Ready client with a signer.
C10_EveryFhevmTypeEncrypts ==
    (/\ lastEnc.called
     /\ ReadyWithSigner(lastEnc)
     /\ lastEnc.fault = 0
     /\ Len(lastEnc.options.values) = 1
     /\ lastEnc.options.values[1].type \in FhevmType)
    => /\ lastEnc.outcome = "resolved"
       /\ Len(lastEnc.result.handles) = 1

\* C11: encryptInput is all-or-nothing: when the creation of the encrypted
\* input, an encoder call or the finalizer throws, or a value of the batch has
\* an unsupported tag, the call rejects with the encryption error wrapping the
\* cause and returns no handles; a call that resolves returns one handle per
\* value of the batch.
C11_EncryptAllOrNothing ==
    (lastEnc.called /\ ReadyWithSigner(lastEnc))
    => /\ (lastEnc.fault # 0 \/ ~AllSupported(lastEnc.options.values))
          => /\ lastEnc.outcome = "rejected"
             /\ lastEnc.error.msg = EncryptionError(NoCause).msg
             /\ lastEnc.error.cause =
                    IF lastEnc.fault \in 1..Len(lastEnc.log)
                    THEN ContextFailure
                    ELSE UnsupportedTypeError(FirstUnsupported(lastEnc.options.values))
             /\ lastEnc.result = NoEncrypted
       /\ lastEnc.outcome = "resolved"
          => Len(lastEnc.result.handles) = Len(lastEnc.options.values)
       /\ lastEnc.outcome \in {"resolved", "rejected"}

\* the encoder of the second value threw after the first value had been encoded
C11_Witness ==
    /\ lastEnc.called
    /\ ReadyWithSigner(lastEnc)
    /\ Len(lastEnc.options.values) = 2
    /\ AllSupported(lastEnc.options.values)
    /\ lastEnc.fault = 3
    /\ Len(EncoderCalls(lastEnc.log)) = 2
    /\ lastEnc.outcome = "rejected"
    /\ lastEnc.error.cause = ContextFailure

\* the calls of the permissioned path, in the order of the code
PermissionedSteps == <<"getAddress", "requestDecryption", "signTypedData", "decrypt">>

\* the call passed its preconditions and took the permissioned path
Permissioned(call) == ReadyWithSigner(call) /\ call.options.useUserDecrypt # "false"

\* C12: in permissioned mode decryptOutput requests the challenge, then has
\* the signer sign that challenge's domain, types and message, then submits
\* that signature to the context; success = true is returned only after all
\* three steps succeeded, with the plaintext the submit step produced.
C12_PermissionedStepsInOrder ==
    \A i \in DecCalls :
        Permissioned(decs[i])
        => LET log == decs[i].log IN
           /\ Len(log) \in 1..4
           /\ \A k \in 1..Len(log) : log[k].fn = PermissionedSteps[k]
           /\ Len(log) >= 3
              => LET ch == ContextChallenge(log[2].args[1], log[2].args[2],
                                           log[2].args[3]) IN
                 /\ log[2].on = decs[i].instance
                 /\ log[3].on \in Signers
                 /\ log[3].args = <<ch.signature.domain, ch.signature.types,
                                    ch.signature.message>>
           /\ Len(log) = 4
              => /\ log[4].on = decs[i].instance
                 /\ log[4].args[1] = decs[i].options.encryptedValue
                 /\ log[4].args[2] = SignTypedData(log[3].on, log[3].args[1],
                                                   log[3].args[2], log[3].args[3])
           /\ (decs[i].outcome = "resolved" /\ decs[i].value.success)
              => /\ Len(log) = 4
                 /\ decs[i].logged = NoCause
                 /\ decs[i].value.plaintext = ContextDecrypt(log[4].args[1])

\* a permissioned decryptOutput went through its three steps and returned the
\* plaintext with success = true
C12_Witness ==
    \E i \in DecCalls :
        /\ Permissioned(decs[i])
        /\ Len(decs[i].log) = 4
        /\ decs[i].outcome = "resolved"
        /\ decs[i].value = DecryptionResult(Number(1), TRUE)

\* C13: with useUserDecrypt = false decryptOutput makes exactly one call, the
\* publicDecrypt on the context: no getAddress, no signTypedData and no
\* requestDecryption; with the flag omitted (or true) it takes the permissioned
\* path and never calls publicDecrypt.
C13_PublicModeOnlyPublicDecrypt ==
    \A i \in DecCalls :
        ReadyWithSigner(decs[i])
        => IF decs[i].options.useUserDecrypt = "false"
           THEN /\ Len(decs[i].log) = 1
                /\ decs[i].log[1].on = decs[i].instance
                /\ decs[i].log[1].fn = "publicDecrypt"
                /\ decs[i].log[1].args = <<decs[i].options.encryptedValue,
                                           decs[i].options.contractAddress>>
                /\ ~Made(decs[i], "getAddress")
                /\ ~Made(decs[i], "signTypedData")
                /\ ~Made(decs[i], "requestDecryption")
           ELSE /\ decs[i].log[1].fn = "getAddress"
                /\ ~Made(decs[i], "publicDecrypt")

\* a public decryptOutput returned the plaintext after its one call
C13_Witness ==
    \E i \in DecCalls :
        /\ ReadyWithSigner(decs[i])
        /\ decs[i].options.useUserDecrypt = "false"
        /\ decs[i].outcome = "resolved"
        /\ decs[i].value = DecryptionResult(Number(1), TRUE)
        /\ CountOf(decs[i].log, "publicDecrypt") = 1

\* the addresses the signers report
SignerAddress == [signerA |-> "0xUser", signerB |-> "0xOther"]

CallRecords == <<inits, lastEnc, decs, reencs>>

\* C15: createFhevmClient adds a client with isInitialized = false and
\* instance = null, makes it the current client, makes no call on a provider,
\* a signer or the context, and leaves every earlier client as it was; in
\* every state the current slot is empty or holds the client created last.
C15_CreateInstallsFreshClient ==
    [][/\ Len(clients') # Len(clients)
          => /\ Len(clients') = Len(clients) + 1
             /\ ~clients'[Len(clients')].isInitialized
             /\ clients'[Len(clients')].instance = NoInstance
             /\ globalClient' = Len(clients')
             /\ \A c \in 1..Len(clients) : clients'[c] = clients[c]
             /\ CallRecords' = CallRecords
       /\ globalClient \in {NoClient, Len(clients)}
       /\ globalClient' \in {NoClient, Len(clients')}]_vars

\* a second client was created while the first was Ready: the new one is
\* current and not initialized, the first is still Ready
C15_Witness ==
    /\ Len(clients) = 2
    /\ globalClient = 2
    /\ clients[1].isInitialized
    /\ clients[1].instance # NoInstance
    /\ ~clients[2].isInitialized
    /\ clients[2].instance = NoInstance

\* C16: resetClient empties the current slot and changes no field of any
\* client, the one that was current included; the slot then stays empty until
\* the next createFhevmClient.
C16_ResetClearsOnlyTheSlot ==
    [][/\ (globalClient # NoClient /\ globalClient' = NoClient)
          => /\ clients' = clients
             /\ CallRecords' = CallRecords
       /\ (globalClient = NoClient /\ Len(clients') = Len(clients))
          => globalClient' = NoClient]_vars

\* the slot was emptied while its client was Ready, and the client still is
C16_Witness ==
    /\ globalClient = NoClient
    /\ \E c \in 1..Len(clients) :
            /\ clients[c].isInitialized
            /\ clients[c].instance # NoInstance
            /\ clients[c].signer # NoSigner

\* some client object is Ready and has a signer
HeldReadyClient ==
    \E c \in 1..Len(clients) :
        clients[c].isInitialized /\ clients[c].signer # NoSigner

\* C17: while a caller holds a Ready client, also after resetClient or after a
\* later createFhevmClient took its place in the current slot, an encryptInput
\* of supported values (the context throwing nothing) succeeds and a
\* decryptOutput is not refused, without a new initFhevm.
C17_HeldReadyClientStaysUsable ==
    [][HeldReadyClient
       => /\ (/\ ~lastEnc.called
               /\ lastEnc'.called
               /\ lastEnc'.fault = 0
               /\ AllSupported(lastEnc'.options.values))
             => lastEnc'.outcome = "resolved"
          /\ Len(decs') = Len(decs) + 1
             => decs'[Len(decs')].outcome # "rejected"]_vars

InitStarts == Len(inits') = Len(inits) + 1

\* C20: an initFhevm(arg) call acts on arg when a client is passed and on the
\* current client otherwise; with neither it rejects at once with the
\* client-not-found error, makes no call and changes no client and not the
\* slot; and no step of an initFhevm call changes a client other than the one
\* the call resolved, so the current client is untouched by a call that was
\* given another client.
C20_InitResolvesArgumentThenCurrent ==
    [][/\ \A arg \in 0..Len(clients) :
            (InitStarts /\ inits' = Append(inits, InitStart(arg)))
            => LET new == inits'[Len(inits')] IN
               /\ new.client = IF arg # NoClient THEN arg ELSE globalClient
               /\ (arg = NoClient /\ globalClient = NoClient)
                  => /\ new.outcome = "rejected"
                     /\ new.error = ClientNotFoundError
                     /\ new.log = <<>>
               /\ clients' = clients
               /\ globalClient' = globalClient
       /\ InitStarts
          => /\ inits'[Len(inits')].client = NoClient => globalClient = NoClient
             /\ inits'[Len(inits')].outcome = "rejected"
                => inits'[Len(inits')].client = NoClient
       /\ \A i \in InitCalls :
            inits'[i] # inits[i]
            => /\ globalClient' = globalClient
               /\ \A c \in 1..Len(clients) :
                    c # inits[i].client => clients'[c] = clients[c]]_vars

\* one initFhevm was refused for want of a client, and another one has made
\* Ready a client that is not the current one while the current one is not
C20_Witness ==
    /\ \E i \in InitCalls :
            /\ inits[i].client = NoClient
            /\ inits[i].error = ClientNotFoundError
    /\ \E i \in InitCalls :
            /\ inits[i].client # NoClient
            /\ globalClient # NoClient
            /\ inits[i].client # globalClient
            /\ inits[i].outcome = "resolved"
            /\ Ran(inits[i], "createInstance")
            /\ clients[inits[i].client].isInitialized
            /\ ~clients[globalClient].isInitialized

\* C24: reencryptValue on a Ready client, with or without a signer, makes
\* exactly one call, the reencrypt on the client's context with the handle,
\* the contract address and the target address it was given; it resolves
\* with what that call returned and rejects with the re-encryption error
\* carrying the cause when that call fails.
C24_ReencryptOneRekeyCall ==
    \A i \in ReencCalls :
        (reencs[i].client # NoClient /\ reencs[i].pre.isInitialized)
        => /\ Len(reencs[i].log) = 1
           /\ reencs[i].log[1].on = reencs[i].pre.instance
           /\ reencs[i].log[1].fn = "reencrypt"
           /\ reencs[i].log[1].args = reencs[i].args
           /\ reencs[i].outcome = "resolved"
              => reencs[i].value = [handle |-> reencs[i].args[1],
                                    contract |-> reencs[i].args[2],
                                    grantedTo |-> reencs[i].args[3]]
           /\ reencs[i].outcome = "rejected"
              => /\ reencs[i].error.msg = ReencryptionError(NoCause).msg
                 /\ reencs[i].error.cause # NoCause
                 /\ reencs[i].value = NoReencrypted

\* a reencryptValue succeeded on a Ready client that has no signer
C24_Witness ==
    \E i \in ReencCalls :
        /\ reencs[i].client # NoClient
        /\ reencs[i].pre.isInitialized
        /\ reencs[i].pre.signer = NoSigner
        /\ reencs[i].outcome = "resolved"
        /\ reencs[i].value.grantedTo = "0xTarget"

\* C25: no call retries: one initFhevm makes getNetwork and createInstance at
\* most once each, one encryptInput makes the finalizer call at most once, one
\* decryptOutput makes requestDecryption, signTypedData, decrypt and
\* publicDecrypt at most once each, in every state (after a failed step too).
C25_NoInternalRetry ==
    /\ \A i \in InitCalls : \A fn \in {"import", "getNetwork", "createInstance"} :
            Cardinality({k \in 1..Len(inits[i].log) : inits[i].log[k] = fn}) <= 1
    /\ CountOf(lastEnc.log, "encrypt") <= 1
    /\ CountOf(lastEnc.log, "createEncryptedInput") <= 1
    /\ \A i \in DecCalls :
            \A fn \in {"getAddress", "requestDecryption", "signTypedData",
                        "decrypt", "publicDecrypt"} :
                CountOf(decs[i].log, fn) <= 1
    /\ \A i \in ReencCalls : CountOf(reencs[i].log, "reencrypt") <= 1

\* the submit step of a decryptOutput failed and the call ended after that
\* one attempt
C25_Witness ==
    \E i \in DecCalls :
        /\ decs[i].pc = "done"
        /\ decs[i].logged = Cause("no permission to decrypt", "")
        /\ CountOf(decs[i].log, "decrypt") = 1
        /\ CountOf(decs[i].log, "requestDecryption") = 1

\* C28: decryptOutput called, in either mode, while the current client is
\* absent or not initialized rejects with the not-initialized error, and
\* called on a Ready client without a signer rejects with the signer-required
\* error; in both cases it returns no result and makes no call.
C28_DecryptPreconditionsReject ==
    \A i \in DecCalls :
        /\ NotReadyAtCall(decs[i])
           => /\ decs[i].outcome = "rejected"
              /\ decs[i].error = NotInitializedError
              /\ decs[i].value = NoValue
              /\ decs[i].log = <<>>
        /\ (~NotReadyAtCall(decs[i]) /\ decs[i].pre.signer = NoSigner)
           => /\ decs[i].outcome = "rejected"
              /\ decs[i].error = DecryptSignerRequiredError
              /\ decs[i].value = NoValue
              /\ decs[i].log = <<>>

\* a public decryptOutput on a Ready client without a signer was rejected
C28_Witness ==
    \E i \in DecCalls :
        /\ decs[i].client # NoClient
        /\ decs[i].pre.isInitialized
        /\ decs[i].pre.signer = NoSigner
        /\ decs[i].options.useUserDecrypt = "false"
        /\ decs[i].outcome = "rejected"
        /\ decs[i].error = DecryptSignerRequiredError

\* the configuration C30 describes: the default of each field, replaced by the
\* override where the overrides give the field a value
DefaultsWithOverrides(o) ==
    [k \in ConfigKeys |->
        IF k \in DOMAIN o /\ o[k] # Undefined THEN o[k] ELSE DefaultConfig[k]]

\* C30: the configuration of a client created with overrides o is the
\* defaults with each field that o gives a value replaced by that value; a
\* field o leaves out, or passes as undefined, keeps its default; and a client
\* created later without overrides has the defaults as they were.
C30_ConfigIsDefaultsWithOverrides ==
    [][\A o \in PartialConfigs :
        clients' = Append(clients, NewClient("provider", "signerA", o))
        => /\ clients'[Len(clients')].config = DefaultsWithOverrides(o)
           /\ o = [k \in {} |-> ""]
              => clients'[Len(clients')].config = DefaultConfig]_vars

\* C27: on a Ready client with a signer and a context that maps each handle
\* back to the value it was made from, a permissioned decryptOutput of the
\* handle returned by encryptInput of one euint32 value V, with no step
\* failing, resolves to plaintext V with success = true.
C27_EncryptDecryptRoundTrip ==
    \A i \in DecCalls :
        (/\ lastEnc.outcome = "resolved"
         /\ decs[i].options.encryptedValue = lastEnc.result.handles[1]
         /\ decs[i].options.useUserDecrypt # "false"
         /\ decs[i].pc = "done"
         /\ decs[i].logged = NoCause)
        => /\ decs[i].outcome = "resolved"
           /\ decs[i].value.success = TRUE
           /\ decs[i].value.plaintext.kind = "number"
           /\ decs[i].value.plaintext.value = lastEnc.options.values[1].value

\* the largest value went through encryptInput and a permissioned
\* decryptOutput and came back
C27_Witness ==
    \E i \in DecCalls :
        /\ lastEnc.outcome = "resolved"
        /\ lastEnc.options.values[1] = [value |-> 2147483647, type |-> "euint32"]
        /\ decs[i].options.encryptedValue = lastEnc.result.handles[1]
        /\ decs[i].options.useUserDecrypt = "undefined"
        /\ Len(decs[i].log) = 4
        /\ decs[i].outcome = "resolved"
        /\ decs[i].value = [plaintext |-> [kind |-> "number", value |-> 2147483647],
                            success |-> TRUE]

\* C21: a call of getFhevmClient, isClientInitialized or isFhevmReady returns
\* (never throws) and changes no client, not the slot and no call record;
\* isFhevmReady returns isInitialized of its argument, or of the current client
\* when it has none, and false when there is neither; isClientInitialized the
\* same for the current client; getFhevmClient returns the slot, which a create
\* fills and which no other step fills.
C21_ReadsArePure ==
    [][/\ lastRead' # lastRead
          => /\ clients' = clients
             /\ globalClient' = globalClient
             /\ CallRecords' = CallRecords
             /\ lastRead'.outcome = "returned"
             /\ lastRead'.fn = "isFhevmReady"
                => LET c == IF lastRead'.arg # NoClient THEN lastRead'.arg
                                                       ELSE globalClient
                   IN  lastRead'.flag = (c # NoClient /\ clients[c].isInitialized)
             /\ lastRead'.fn = "isClientInitialized"
                => lastRead'.flag = (/\ globalClient # NoClient
                                     /\ clients[globalClient].isInitialized)
             /\ lastRead'.fn = "getFhevmClient"
                => lastRead'.value = globalClient
       /\ Len(clients') > Len(clients) => globalClient' # NoClient
       /\ Len(clients') = Len(clients) => globalClient' \in {globalClient, NoClient}]_vars

\* isFhevmReady(client) returned true for a Ready client while the slot is
\* empty
C21_Witness ==
    /\ lastRead.fn = "isFhevmReady"
    /\ lastRead.arg # NoClient
    /\ lastRead.flag
    /\ lastRead.outcome = "returned"
    /\ globalClient = NoClient
    /\ clients[lastRead.arg].isInitialized

\* request i of the batch meets no failure
RequestSucceeds(i) ==
    batchEnc.faults[i] = 0 /\ AllSupported(batchEnc.inputs[i].values)

\* what encrypting a request's values gives: a handle per value, in order
HandlesOf(values) ==
    [j \in 1..Len(values) |->
        [encoder |-> WidthEncoder[values[j].type], plaintext |-> values[j].value]]

\* C22: batchEncryptInputs over K requests on a Ready client with a signer
\* resolves, when every request succeeds, to K results, result i holding the
\* handles of request i; when any request fails it rejects with that
\* request's encryption error and returns no list.
C22_BatchEncryptPositionalOrNothing ==
    batchEnc.called
    => LET K == Len(batchEnc.inputs) IN
       IF \A i \in 1..K : RequestSucceeds(i)
       THEN /\ batchEnc.outcome = "resolved"
            /\ Len(batchEnc.results) = K
            /\ \A i \in 1..K :
                    batchEnc.results[i].handles = HandlesOf(batchEnc.inputs[i].values)
       ELSE /\ batchEnc.outcome = "rejected"
            /\ batchEnc.results = <<>>
            /\ batchEnc.error.msg = EncryptionError(NoCause).msg
            /\ batchEnc.error.cause # NoCause

\* a batch of two different requests resolved to their two results in order
C22_Witness ==
    /\ batchEnc.called
    /\ Len(batchEnc.inputs) = 2
    /\ batchEnc.inputs[1].values[1].value = 300
    /\ batchEnc.inputs[2].values[1].value = 1
    /\ batchEnc.outcome = "resolved"
    /\ batchEnc.results[1].handles[1].plaintext = 300
    /\ batchEnc.results[2].handles[1].plaintext = 1

\* C23: batchDecryptOutputs over K requests on a Ready client with a signer
\* never rejects; it resolves when all K slots have ended, whatever the order
\* they ended in, to K results, result i being that of request i: the value
\* of its handle with success = true, or the empty plaintext with
\* success = false when that slot met a failure, whatever the other slots met.
C23_BatchDecryptPositionalPerSlot ==
    batchDec.called
    => LET K == Len(batchDec.outputs)
           slot(i) == decs[batchDec.first + i - 1]
       IN  /\ batchDec.count = K
           /\ batchDec.outcome # "rejected"
           /\ batchDec.outcome = "resolved" <=> \A i \in 1..K : slot(i).pc = "done"
           /\ batchDec.outcome = "resolved"
              => /\ Len(batchDec.results) = K
                 /\ \A i \in 1..K :
                        /\ slot(i).options = batchDec.outputs[i]
                        /\ batchDec.results[i].success = (slot(i).logged = NoCause)
                        /\ batchDec.results[i].plaintext.kind =
                             IF slot(i).logged # NoCause THEN "string" ELSE "number"
                        /\ batchDec.results[i].plaintext.value =
                             IF slot(i).logged # NoCause
                             THEN EmptyString.value
                             ELSE batchDec.outputs[i].encryptedValue.plaintext

\* a batch of two resolved with the failure of its first slot in the first
\* result and the value of its second request in the second
C23_Witness ==
    /\ batchDec.called
    /\ batchDec.outcome = "resolved"
    /\ Len(batchDec.results) = 2
    /\ decs[1].logged # NoCause
    /\ ~batchDec.results[1].success
    /\ batchDec.results[1].plaintext.kind = "string"
    /\ batchDec.outputs[1].encryptedValue.plaintext = 1
    /\ batchDec.results[2].success
    /\ batchDec.results[2].plaintext.kind = "number"
    /\ batchDec.results[2].plaintext.value = 300

\* C26: no step of encryptInput, decryptOutput, batchEncryptInputs,
\* batchDecryptOutputs or reencryptValue, succeeding or failing, changes the
\* current slot or any field of any client.
C26_OperationsLeaveClientsAlone ==
    [][clients' = clients /\ globalClient' = globalClient]_vars

\* a batchDecryptOutputs has ended with a failed slot and the client is as it
\* was: Ready, current, with its context and signer
C26_Witness ==
    /\ batchDec.called
    /\ batchDec.outcome = "resolved"
    /\ \E i \in DecCalls : decs[i].logged # NoCause
    /\ globalClient = 1
    /\ clients = InitStore(<<NewClient("provider", "signerA", [k \in {} |-> ""])>>,
                           1, NewInstance(1))

\* what C29 says of one hook, given the outcome and the error of the core
\* call its latest call awaited
HookFollowsCore(h, outcome, error) ==
    /\ h.pc = "await" => (h.isBusy /\ h.error = NoError)
    /\ h.pc = "done"
       => /\ ~h.isBusy
          /\ outcome \in {"resolved", "rejected"}
          /\ outcome = "rejected" => (h.error = error /\ h.returned = "null")
          /\ outcome = "resolved" => (h.error = NoError /\ h.returned = "result")

\* C29: while a call of the function returned by useEncryptInput or
\* useDecryptOutput is in progress the busy flag is true and the error is
\* null; when it has ended the busy flag is false; when the core operation
\* rejected, the hook's error is the error the core operation raised and the
\* function returned null, and otherwise it returned the core's result.
C29_HookSurfacesCoreError ==
    /\ HookFollowsCore(hookEnc, lastEnc.outcome, lastEnc.error)
    /\ hookDec.calls > 0
       => HookFollowsCore(hookDec, decs[hookDec.call].outcome,
                          decs[hookDec.call].error)

\* a first encrypt(options) ended with the core's encryption error in the
\* hook, and a second one cleared it, succeeded and ended with the busy flag
\* false
C29_Witness ==
    /\ hookEnc.calls = 2
    /\ hookEnc.pc = "done"
    /\ hookEnc.pre.error.msg = EncryptionError(NoCause).msg
    /\ hookEnc.pre.error.cause = ContextFailure
    /\ ~hookEnc.pre.isBusy
    /\ lastEnc.outcome = "resolved"
    /\ hookEnc.error = NoError
    /\ hookEnc.returned = "result"
    /\ ~hookEnc.isBusy

\* the largest value of each unsigned tag of the documented table that the
\* values of the model can exceed
DocumentedMax == [add8 |-> 255, add16 |-> 65535]

\* the value fits the width of the encoder it is passed to
FitsEncoder(value, encoder) ==
    /\ value >= 0
    /\ encoder \in DOMAIN DocumentedMax => value <= DocumentedMax[encoder]

\* C31: encryptInput only encodes values that fit their declared width: every
\* value passed to an encoder lies in 0..2^w-1 for the encoder's width w, and
\* a call with a supported tag and a value outside that range is rejected.
C31_OnlyFittingValuesEncoded ==
    lastEnc.called
    => /\ \A k \in 1..Len(lastEnc.log) :
            lastEnc.log[k].fn \in Encoders
            => FitsEncoder(lastEnc.log[k].args[1], lastEnc.log[k].fn)
       /\ (\E i \in 1..Len(lastEnc.options.values) :
               /\ lastEnc.options.values[i].type \in SupportedTags
               /\ ~FitsEncoder(lastEnc.options.values[i].value,
                               WidthEncoder[lastEnc.options.values[i].type]))
          => lastEnc.outcome = "rejected"

\* C32: a permissioned decryptOutput uses one signer for its whole run: the
\* signer asked for the address that keys the challenge is the signer asked
\* for the signature, also when updateClientSigner replaced the client's
\* signer while the call was suspended.
C32_OneSignerPerDecrypt ==
    \A i \in DecCalls :
        \A j, k \in 1..Len(decs[i].log) :
            (decs[i].log[j].fn = "getAddress" /\ decs[i].log[k].fn = "signTypedData")
            => decs[i].log[j].on = decs[i].log[k].on

\* C33: once a client is Ready its opaque context is never replaced: no step
\* of any initFhevm call, under any interleaving of overlapping calls on that
\* client, changes the instance of a client that is initialized.
C33_ReadyContextNeverReplaced ==
    [][\A c \in 1..Len(clients) :
        clients[c].isInitialized
        => /\ clients'[c].isInitialized
           /\ clients'[c].instance = clients[c].instance]_vars

\* C34: in every reachable state and for every client object, isInitialized
\* is true exactly when instance is non-null (the context factory returns a
\* non-null context): no state, at an await point or elsewhere, has one of
\* the two set and the other not.
C34_InitializedIffInstance ==
    \A c \in 1..Len(clients) :
        clients[c].isInitialized <=> clients[c].instance # NoInstance

\* one client is Ready with its context while an initFhevm on another client
\* is suspended at createInstance, that client still without either
C34_Witness ==
    \E c, d \in 1..Len(clients) :
        /\ clients[c].isInitialized
        /\ clients[c].instance # NoInstance
        /\ ~clients[d].isInitialized
        /\ clients[d].instance = NoInstance
        /\ \E i \in InitCalls : inits[i].client = d /\ inits[i].pc = "createInstance"

\* C35: an initFhevm call acts only on the client it resolved when it
\* started: the client of a call never changes, and the step that ends its
\* handshake sets instance and isInitialized on that client, leaves every
\* other client and the current slot as they are, also when resetClient or
\* createFhevmClient ran while the call was suspended.
C35_InitActsOnResolvedClient ==
    [][\A i \in InitCalls :
        /\ inits'[i].client = inits[i].client
        /\ (inits[i].pc = "createInstance" /\ inits'[i].outcome = "resolved")
           => /\ clients'[inits[i].client].isInitialized
              /\ clients'[inits[i].client].instance = NewInstance(i)
              /\ \A d \in 1..Len(clients) :
                    d # inits[i].client => clients'[d] = clients[d]
              /\ globalClient' = globalClient]_vars

\* the only initFhevm call made has resolved after its handshake on the first
\* client, which is Ready, while the current client is a later one that is not
C35_Witness ==
    /\ Len(inits) = 1
    /\ inits[1].outcome = "resolved"
    /\ Ran(inits[1], "createInstance")
    /\ inits[1].client = 1
    /\ clients[1].isInitialized
    /\ globalClient = 2
    /\ ~clients[2].isInitialized
    /\ clients[2].instance = NoInstance

\* C36: for useFhevmClient, once every initialization started by its effect
\* has settled and the hook reports a client, that client is the current
\* global client, in whatever order overlapping initializations completed.
C36_HookClientIsCurrentClient ==
    (/\ \A i \in InitCalls : inits[i].pc = "done"
     /\ useClient.isInitialized)
    => useClient.client = globalClient

\* C37: in every reachable state of useFhevmClient, isInitialized = true
\* implies that the returned client is non-null, that the current global
\* client is Ready and that error is null.
C37_HookReadyMeansReadyAndNoError ==
    useClient.isInitialized
    => /\ useClient.client # NoClient
       /\ isFhevmReady(NoClient)
       /\ useClient.error = NoError

\* C38: for useEncryptInput and useDecryptOutput, the busy flag is true in
\* every state in which at least one call made through the hook's function
\* is still in flight, also when two calls overlap and one ends first.
C38_BusyWhileAnyCallInFlight ==
    (\E k \in 1..Len(hookDecCalls) : hookDecCalls[k].pc = "await")
    => hookDec.isBusy

\* C39: useFhevmContract.writeEncrypted never invokes the contract function
\* when the client has no signer or when encryption failed: it has thrown
\* instead; when it does invoke it, the arguments are the handles of that
\* encryption, one per value in input order, followed by the proof as the
\* last argument.
C39_WriteInvokesOnlyEncrypted ==
    /\ (write.called /\ write.pre.signer = NoSigner)
       => /\ write.invoke = NoInvoke
          /\ write.outcome = "rejected"
          /\ write.error = SignerNotAvailableError
    /\ (write.called /\ write.pc # "encrypt" /\ write.pre.signer # NoSigner
        /\ lastEnc.outcome # "resolved")
       => /\ write.invoke = NoInvoke
          /\ write.outcome = "rejected"
          /\ write.error = EncryptionFailedError
    /\ write.invoke # NoInvoke
       => LET values == lastEnc.options.values
              n == Len(values)
              args == write.invoke.args
          IN  /\ lastEnc.outcome = "resolved"
              /\ Len(args) = n + 1
              /\ \A i \in 1..n :
                    args[i] = [encoder |-> WidthEncoder[values[i].type],
                               plaintext |-> values[i].value]
              /\ args[n + 1] = lastEnc.result.inputProof
              /\ args[n + 1].covers = n

\* a writeEncrypted of two values has invoked the contract function with
\* their two handles and the proof
C39_Witness ==
    /\ write.pc = "invoke"
    /\ Len(write.invoke.args) = 3
    /\ write.invoke.args[1].plaintext = 1
    /\ write.invoke.args[2].plaintext = 300
    /\ write.invoke.args[3] = lastEnc.result.inputProof
    /\ write.invoke.signer = "signerA"

\* C40: in the vanilla-JS demo the encrypt and decrypt buttons are enabled
\* only after an initialization of the demo's client has completed
\* successfully; the status 'Decryption successful' is displayed only when
\* the Decryption Result has success = true; and a decryption that failed
\* ends in the error status.
C40_DemoShowsWhatHappened ==
    /\ (demo.encryptBtn \/ demo.decryptBtn)
       => /\ demo.client # NoClient
          /\ \E i \in InitCalls : /\ inits[i].client = demo.client
                                  /\ inits[i].outcome = "resolved"
    /\ (demo.dec # 0 /\ ~demo.awaiting)
       => /\ demo.decryptResult = "success"
             => /\ decs[demo.dec].outcome = "resolved"
                /\ decs[demo.dec].value.success = TRUE
          /\ (\/ decs[demo.dec].outcome = "rejected"
              \/ decs[demo.dec].logged # NoCause)
             => demo.decryptResult = "error"

====
